---- MODULE Spec2Model ----
(***************************************************************************)
(* A model of flink-agents' plan compiler and resource resolver:           *)
(*   - AgentPlan.get_resource (plan/agent_plan.py), line by line, run by   *)
(*     one caller (Spec) or by several threads sharing one plan (SpecConc);*)
(*   - Agent's registration API (api/agent.py), the decorators             *)
(*     (api/decorators.py) and AgentPlan.from_agent / get_actions          *)
(*     (SpecCompile).                                                      *)
(*   - AgentPlan's serializer and "before" validator, plan instances and   *)
(*     their private caches (SpecSerde, SpecPlans);                        *)
(*   - ChatModelSettings.chat (api/chat_models/chat_model.py), line by     *)
(*     line (SpecChat).                                                    *)
(***************************************************************************)
EXTENDS Integers, Sequences, FiniteSets, TLC

\* ------------------------------------------------------------------ bounds

\* Top-level get_resource calls one caller issues.
MaxCalls == 2
\* Threads sharing one plan instance in SpecConc.
NThreads == 2
\* Top-level get_resource calls of each thread in SpecConc.
MaxConcCalls == 1
\* Dependencies one constructor resolves.
MaxDeps == 1
\* Depth at which the interpreter cuts a recursion short (RecursionError).
RecursionLimit == 3
\* Declarations of one agent: class members plus add_* registrations.
MaxDecls == 2
\* AgentPlan instances alive in one process.
MaxPlans == 2
\* Messages handed to one chat() call.
MaxMessages == 2
\* Records in the input list of one run.
MaxInputs == 2

\* ------------------------------------------------------------ resource.py

\* class ResourceType(Enum)
ResourceType == {"chat_model", "chat_model_connection", "tool", "prompt"}

\* The (type, name) pairs the model declares and requests.
Pairs == {<<"chat_model", "x">>, <<"chat_model", "y">>, <<"tool", "x">>}

\* A dict with no key.
EmptyMap == [x \in {} |-> x]

\* d[key] = value of a Python dict.
Put(d, key, value) ==
    [x \in DOMAIN d \cup {key} |-> IF x = key THEN value ELSE d[x]]

\* name in m[type], for a two-level dict whose first level may lack type.
Has2(m, type, name) == type \in DOMAIN m /\ name \in DOMAIN m[type]

\* All sequences over S of length at most n.
SeqUpTo(S, n) == UNION {[1..k -> S] : k \in 0..n}

\* ------------------------------------------------------- provider variants

\* What a declaration gives besides the name: the class to construct, the
\* function a tool wraps, the text of a prompt, and the keyword arguments of
\* the chat model classes (host, desc, connection, prompt, tools).
NoArgs ==
    [clazz |-> "none", func |-> "none", text |-> <<>>, host |-> "none",
     desc |-> "none", connection |-> "none", prompt |-> "none", tools |-> <<>>]

\* The keyword arguments captured for a resource's constructor: the name
\* among them, the other arguments (args), and whether every value is plain
\* data (scalars, sequences, mappings) or some value is an object a document
\* cannot hold.
Kwargs(name, plain) == [name |-> name, plain |-> plain, args |-> NoArgs]

\* from_callable(name=name, func=func), as the provider of a prebuilt tool
\* holds it: the tool's name and the function it wraps.
FromCallable(name, func) ==
    [name |-> name, plain |-> TRUE, args |-> [NoArgs EXCEPT !.func = func]]

\* The get_resource calls the constructor of the declared class makes from
\* its keyword arguments: the tools in order, then the prompt named.
Lookups(kwargs) ==
    [i \in 1..Len(kwargs.args.tools) |-> <<"tool", kwargs.args.tools[i]>>]
    \o (IF kwargs.args.prompt /= "none"
        THEN <<<<"prompt", kwargs.args.prompt>>>> ELSE <<>>)

\* A provider built from a class and keyword arguments: provide() runs the
\* class's constructor, which may resolve other resources (deps, in order).
\* A provider built from a prebuilt resource resolves nothing.
Provider(variant, type, name, deps) ==
    [variant |-> variant, type |-> type, name |-> name, deps |-> deps,
     kwargs |-> Kwargs(name, TRUE)]

\* The registries get_resource is run against: every pair is either
\* undeclared or declared once (names are unique within a type).
Declarations ==
    [Pairs -> [declared : BOOLEAN, deps : SeqUpTo(Pairs, MaxDeps)]]

WellFormedDecl(d) ==
    /\ \A p \in Pairs : ~d[p].declared => d[p].deps = <<>>
    /\ \A p \in Pairs : p[1] = "tool" => d[p].deps = <<>>

RegistryOf(d) ==
    LET types == {p[1] : p \in {q \in Pairs : d[q].declared}}
    IN [t \in types |->
          [n \in {p[2] : p \in {q \in Pairs : d[q].declared /\ q[1] = t}} |->
              Provider(IF t = "tool" THEN "PythonSerializableResourceProvider"
                                     ELSE "PythonResourceProvider",
                       t, n, d[<<t, n>>].deps)]]

Registries == {RegistryOf(d) : d \in {e \in Declarations : WellFormedDecl(e)}}

\* ---------------------------------------------------------- Python dicts

\* A dict that keeps insertion order: a sequence of [key, value] entries
\* with distinct keys.
DictKeys(d) == {d[i].key : i \in 1..Len(d)}

\* d[key]
DictGet(d, key) == d[CHOOSE i \in 1..Len(d) : d[i].key = key].value

\* d[key] = value: a new key goes last, a known key keeps its place.
DictSet(d, key, value) ==
    IF key \in DictKeys(d)
    THEN [i \in 1..Len(d) |->
            IF d[i].key = key THEN [key |-> key, value |-> value] ELSE d[i]]
    ELSE Append(d, [key |-> key, value |-> value])

\* ------------------------------------------------------------ event types

EventType(module, name) == [module |-> module, name |-> name]

InputEvent == EventType("flink_agents.api.events.event", "InputEvent")
OutputEvent == EventType("flink_agents.api.events.event", "OutputEvent")
ChatRequestEvent == EventType("flink_agents.api.events.chat_event", "ChatRequestEvent")
ChatResponseEvent == EventType("flink_agents.api.events.chat_event", "ChatResponseEvent")
ToolRequestEvent == EventType("flink_agents.api.events.tool_event", "ToolRequestEvent")
ToolResponseEvent == EventType("flink_agents.api.events.tool_event", "ToolResponseEvent")

\* f"{event_type.__module__}.{event_type.__name__}"
QualifiedName(event_type) == event_type.module \o "." \o event_type.name

RECURSIVE QualifiedNames(_)
QualifiedNames(events) ==
    IF events = <<>> THEN <<>>
    ELSE <<QualifiedName(Head(events))>> \o QualifiedNames(Tail(events))

\* ---------------------------------------------------------------- actions

\* plan.actions.action.Action
Action(name, exec, listen_event_types) ==
    [name |-> name, exec |-> exec, listen_event_types |-> listen_event_types]

CHAT_MODEL_ACTION ==
    Action("chat_model_action", "process_chat_request_or_tool_response",
           <<QualifiedName(ChatRequestEvent), QualifiedName(ToolResponseEvent)>>)

TOOL_CALL_ACTION ==
    Action("tool_call_action", "process_tool_request",
           <<QualifiedName(ToolRequestEvent)>>)

BUILT_IN_ACTIONS == <<CHAT_MODEL_ACTION, TOOL_CALL_ACTION>>

\* ------------------------------------------------------------- the agent

\* A member of the Agent subclass's body: a function and the marker its
\* decorator set on it (_listen_events, _is_tool, ...).
Member(marker, events) ==
    [marker |-> marker, events |-> events, kwargs |-> Kwargs("none", TRUE)]

\* Agent.__init__
NewAgent ==
    [actions |-> <<>>, prompts |-> <<>>, tools |-> <<>>,
     chat_model_connections |-> <<>>, chat_models |-> <<>>]

\* The resource type of the class a chat_model or chat_model_connection
\* declaration names (clazz.resource_type()), and of a tool or a prompt.
TypeOfMarker(marker) ==
    CASE marker = "chat_model" -> "chat_model"
      [] marker = "chat_model_connection" -> "chat_model_connection"
      [] marker = "tool" -> "tool"
      [] marker = "prompt" -> "prompt"

\* ------------------------------------------------------------ _get_actions

RECURSIVE ClassActions(_)
ClassActions(cd) ==
    IF cd = <<>> THEN <<>>
    ELSE (IF Head(cd).value.marker = "action"
          THEN <<Action(Head(cd).key, Head(cd).key,
                        QualifiedNames(Head(cd).value.events))>>
          ELSE <<>>) \o ClassActions(Tail(cd))

RECURSIVE AddedActions(_)
AddedActions(d) ==
    IF d = <<>> THEN <<>>
    ELSE <<Action(Head(d).key, Head(d).value.func,
                  QualifiedNames(Head(d).value.events))>> \o AddedActions(Tail(d))

\* _get_actions with its two loops exchanged.
GetActions_AddedFirst(cd, ag) == AddedActions(ag.actions) \o ClassActions(cd)

\* _get_actions(agent): the decorated members in class order, then
\* agent._actions in registration order.
GetActions(cd, ag) == ClassActions(cd) \o AddedActions(ag.actions)

\* ------------------------------------------------- _get_resource_providers

\* A provider that keeps the name and drops the other keyword arguments.
PythonResourceProvider_NameOnly(name, type, kwargs) ==
    Provider("PythonResourceProvider", type, name, <<>>)

\* PythonResourceProvider(name=name, type=clazz.resource_type(),
\*                        module=..., clazz=..., kwargs=kwargs)
PythonResourceProvider(name, type, kwargs) ==
    [Provider("PythonResourceProvider", type, name, Lookups(kwargs)) EXCEPT
        !.kwargs = kwargs]

\* PythonSerializableResourceProvider.from_resource(name=name, resource=...)
FromResource(name, type, resource) ==
    [Provider("PythonSerializableResourceProvider", type, name, <<>>) EXCEPT
        !.kwargs = resource]

RECURSIVE ClassProviders(_)
ClassProviders(cd) ==
    IF cd = <<>> THEN <<>>
    ELSE (CASE Head(cd).value.marker \in {"chat_model", "chat_model_connection"} ->
                 <<PythonResourceProvider(Head(cd).key,
                                          TypeOfMarker(Head(cd).value.marker),
                                          Head(cd).value.kwargs)>>
            [] Head(cd).value.marker = "tool" ->
                 <<FromResource(Head(cd).key, "tool",
                                FromCallable(Head(cd).key, Head(cd).key))>>
            [] Head(cd).value.marker = "prompt" ->
                 <<FromResource(Head(cd).key, "prompt", Head(cd).value.kwargs)>>
            [] OTHER -> <<>>) \o ClassProviders(Tail(cd))

\* for name, prompt in agent._prompts.items(): from_resource(name, prompt)
\* for name, func in agent._tools.items(): from_resource(name, from_callable(...))
RECURSIVE AddedProviders(_, _)
AddedProviders(d, type) ==
    IF d = <<>> THEN <<>>
    ELSE <<FromResource(Head(d).key, type,
                        IF type = "tool" THEN FromCallable(Head(d).key, Head(d).value)
                        ELSE Kwargs(Head(d).key, TRUE))>>
         \o AddedProviders(Tail(d), type)

\* for name, chat_model in agent._chat_models.items(): clazz, kwargs = ...
RECURSIVE AddedClassProviders(_, _)
AddedClassProviders(d, type) ==
    IF d = <<>> THEN <<>>
    ELSE <<PythonResourceProvider(Head(d).key, type, Head(d).value)>>
         \o AddedClassProviders(Tail(d), type)

\* _get_resource_providers(agent): the decorated members, then _prompts,
\* _tools, _chat_models, _chat_model_connections.
GetResourceProviders(cd, ag) ==
    ClassProviders(cd)
    \o AddedProviders(ag.prompts, "prompt")
    \o AddedProviders(ag.tools, "tool")
    \o AddedClassProviders(ag.chat_models, "chat_model")
    \o AddedClassProviders(ag.chat_model_connections, "chat_model_connection")

\* ---------------------------------------------------- AgentPlan.from_agent

\* for action in _get_actions(agent) + BUILT_IN_ACTIONS (built-ins first).
AllActions_BuiltInsFirst(cd, ag) == BUILT_IN_ACTIONS \o GetActions(cd, ag)

\* for action in _get_actions(agent) + BUILT_IN_ACTIONS
AllActions(cd, ag) == GetActions(cd, ag) \o BUILT_IN_ACTIONS

\* The duplicate test dropped.
DuplicateAction_Unchecked(name, acts) == FALSE

\* assert action.name not in actions
DuplicateAction(name, acts) == name \in DictKeys(acts)

\* actions_by_event[event_type].insert(0, action.name)
Listen_Prepend(abe, event_type, name) ==
    DictSet(abe, event_type,
            <<name>> \o (IF event_type \in DictKeys(abe)
                         THEN DictGet(abe, event_type) ELSE <<>>))

\* if event_type not in actions_by_event: actions_by_event[event_type] = []
\* actions_by_event[event_type].append(action.name)
Listen(abe, event_type, name) ==
    DictSet(abe, event_type,
            Append(IF event_type \in DictKeys(abe)
                   THEN DictGet(abe, event_type) ELSE <<>>, name))

\* The loop of line 126 left after its first round.
ListenAll_FirstOnly(abe, events, name) ==
    IF events = <<>> THEN abe ELSE Listen(abe, Head(events), name)

RECURSIVE ListenAll(_, _, _)
ListenAll(abe, events, name) ==
    IF events = <<>> THEN abe
    ELSE ListenAll(Listen(abe, Head(events), name), Tail(events), name)

\* The first loop of from_agent: ok is FALSE when the assertion fails.
RECURSIVE CompileActions(_, _, _)
CompileActions(todo, acts, abe) ==
    IF todo = <<>>
    THEN [ok |-> TRUE, actions |-> acts, actions_by_event |-> abe]
    ELSE IF DuplicateAction(Head(todo).name, acts)
         THEN [ok |-> FALSE, actions |-> acts, actions_by_event |-> abe]
         ELSE CompileActions(Tail(todo),
                             DictSet(acts, Head(todo).name, Head(todo)),
                             ListenAll(abe, Head(todo).listen_event_types,
                                       Head(todo).name))

\* The duplicate test made on the name alone, whatever the type.
DuplicateResource_AnyType(provider, rp) ==
    \E t \in DOMAIN rp : provider.name \in DOMAIN rp[t]

\* assert name not in resource_providers[type]
DuplicateResource(provider, rp) == Has2(rp, provider.type, provider.name)

\* The second loop of from_agent.
RECURSIVE CompileProviders(_, _)
CompileProviders(todo, rp) ==
    IF todo = <<>>
    THEN [ok |-> TRUE, resource_providers |-> rp]
    ELSE IF DuplicateResource(Head(todo), rp)
         THEN [ok |-> FALSE, resource_providers |-> rp]
         ELSE CompileProviders(
                  Tail(todo),
                  Put(rp, Head(todo).type,
                      Put(IF Head(todo).type \in DOMAIN rp
                          THEN rp[Head(todo).type] ELSE EmptyMap,
                          Head(todo).name, Head(todo))))

\* AgentPlan.from_agent(agent): the plan, or the AssertionError of a
\* duplicate name.
FromAgent(cd, ag) ==
    LET a == CompileActions(AllActions(cd, ag), <<>>, <<>>)
        r == CompileProviders(GetResourceProviders(cd, ag), EmptyMap)
    IN IF ~a.ok \/ ~r.ok
       THEN [ok |-> FALSE, error |-> "AssertionError", actions |-> <<>>,
             actions_by_event |-> <<>>, resource_providers |-> EmptyMap]
       ELSE [ok |-> TRUE, error |-> "none", actions |-> a.actions,
             actions_by_event |-> a.actions_by_event,
             resource_providers |-> r.resource_providers]

\* ------------------------------------------------- AgentPlan instances

\* A resource as get_resource hands it out; serial is the object's identity:
\* a number when one plan is modelled, <<plan, n>> for the n-th object that
\* plan built for the pair when several are.
NoResource == [type |-> "none", name |-> "none", serial |-> 0, uses |-> <<>>,
               kwargs |-> Kwargs("none", TRUE)]

\* An AgentPlan instance: its three fields, and the dict object its private
\* attribute __resources refers to (an index into the dict objects).
AgentPlan(id, acts, abe, rp, ref) ==
    [id |-> id, actions |-> acts, actions_by_event |-> abe,
     resource_providers |-> rp, resources |-> ref]

\* Every instance refers to the one dict written in the class body.
InitPrivateAttributes_Shared(ds) == [ref |-> 1, dicts |-> ds]

\* __resources: Dict[ResourceType, Dict[str, Resource]] = {}
\* A private attribute of a pydantic model: each new instance gets its own
\* copy of the default.
InitPrivateAttributes(ds) == [ref |-> Len(ds) + 1, dicts |-> Append(ds, ds[1])]

\* The objects plan id has built for (type, name).
BuiltBy(objs, id, type, name) ==
    {o \in objs : o.type = type /\ o.name = name /\ o.serial[1] = id}

\* What a call leaves behind: the plan, the dict objects, the resources
\* built, the exception raised (or "none") and the value returned.
Result(plan, ds, objs, exception, value) ==
    [plan |-> plan, dicts |-> ds, objects |-> objs, error |-> exception,
     value |-> value]

\* A value worked out once, then used under a name: Then(value).
With(value, Then(_)) == CHOOSE result \in {Then(v) : v \in {value}} : TRUE

RECURSIVE GetResource(_, _, _, _, _, _)
RECURSIVE ResolveAll(_, _, _, _, _, _)

\* resource_provider.provide(get_resource=self.get_resource): the constructor
\* resolves its dependencies in order, then the resource exists.
Provide(plan, ds, objs, provider, depth) ==
    With(ResolveAll(plan, ds, objs, provider.deps, <<>>, depth),
         LAMBDA r :
            IF r.error /= "none" THEN r
            ELSE LET n == Cardinality(BuiltBy(r.objects, plan.id, provider.type,
                                              provider.name)) + 1
                     resource == [type |-> provider.type, name |-> provider.name,
                                  serial |-> <<plan.id, n>>, uses |-> r.value,
                                  kwargs |-> provider.kwargs]
                 IN Result(r.plan, r.dicts, r.objects \cup {resource}, "none",
                           resource))

\* The get_resource calls of one constructor, one after the other; the first
\* that raises ends the constructor.
ResolveAll(plan, ds, objs, deps, got, depth) ==
    IF deps = <<>> THEN Result(plan, ds, objs, "none", got)
    ELSE IF depth >= RecursionLimit
         THEN Result(plan, ds, objs, "RecursionError", NoResource)
         ELSE With(GetResource(plan, ds, objs, Head(deps)[1], Head(deps)[2],
                               depth + 1),
                   LAMBDA r :
                      IF r.error /= "none" THEN r
                      ELSE ResolveAll(r.plan, r.dicts, r.objects, Tail(deps),
                                      Append(got, r.value), depth))

\* get_resource that keeps only what a Python provider built: the resource
\* of a provider of the other runtime is handed out without being stored.
GetResource_NativeOnlyCache(plan, ds, objs, type, name, depth) ==
    LET ref == plan.resources
        d1 == IF type \notin DOMAIN ds[ref]
              THEN [ds EXCEPT ![ref] = Put(@, type, EmptyMap)]
              ELSE ds
    IN IF name \in DOMAIN d1[ref][type]
       THEN Result(plan, d1, objs, "none", d1[ref][type][name])
       ELSE IF ~Has2(plan.resource_providers, type, name)
            THEN Result(plan, d1, objs, "KeyError", NoResource)
            ELSE LET c == Provide(plan, d1, objs,
                                  plan.resource_providers[type][name], depth)
                 IN IF c.error /= "none" THEN c
                    ELSE IF plan.resource_providers[type][name].variant
                            \in {"JavaResourceProvider",
                                 "JavaSerializableResourceProvider"}
                         THEN c
                         ELSE LET d2 == [c.dicts EXCEPT ![ref][type] =
                                            Put(@, name, c.value)]
                              IN Result(c.plan, d2, c.objects, "none",
                                        d2[ref][type][name])

\* AgentPlan.get_resource(name, type), run to its end by one caller.
GetResource(plan, ds, objs, type, name, depth) ==
    LET ref == plan.resources
        d1 == IF type \notin DOMAIN ds[ref]
              THEN [ds EXCEPT ![ref] = Put(@, type, EmptyMap)]
              ELSE ds
    IN IF name \in DOMAIN d1[ref][type]
       THEN Result(plan, d1, objs, "none", d1[ref][type][name])
       ELSE IF ~Has2(plan.resource_providers, type, name)
            THEN Result(plan, d1, objs, "KeyError", NoResource)
            ELSE With(Provide(plan, d1, objs,
                              plan.resource_providers[type][name], depth),
                      LAMBDA c :
                         IF c.error /= "none" THEN c
                         ELSE LET d2 == [c.dicts EXCEPT ![ref][type] =
                                            Put(@, name, c.value)]
                              IN Result(c.plan, d2, c.objects, "none",
                                        d2[ref][type][name]))

\* ------------------------------------------------------------------ state

VARIABLES
    resource_providers, \* AgentPlan.resource_providers: type -> name -> provider
    resources,          \* AgentPlan.__resources: type -> name -> resource
    stack,              \* per thread, the frames of its nested get_resource calls
    log,                \* per thread, its top-level calls and their outcomes
    returned,           \* history: every resource a get_resource call returned
    invoked,            \* history: per pair, provide() calls started
    provided,           \* history: per pair, provide() calls that built a resource
    class_dict,         \* agent.__class__.__dict__: the members of the Agent subclass
    agent,              \* the Agent instance: _actions, _prompts, _tools, ...
    phase,              \* "class", "agent", "plan" or "failed"
    error,              \* the exception the last registration or compilation raised
    actions,            \* AgentPlan.actions
    actions_by_event,   \* AgentPlan.actions_by_event
    routed,             \* the last get_actions call and its outcome
    registered,         \* the last add_* call on the agent and its outcome
    plans,              \* the AgentPlan instances of the process, in creation order
    document,           \* the last encoded plan (model_dump), as it reaches decode
    decoded,            \* the outcome of the last decode (model_validate)
    dicts,              \* the dict objects that serve as __resources; dicts[1] is
                        \* the default written in the class body
    objects,            \* the resources the instances have built
    calls,              \* history: for each get_resource call made on an instance,
                        \* <<the instance, the instance that built what the call
                        \* returned>>, or <<the instance, 0>> if it raised
    chat,               \* one ChatModelSettings.chat invocation
    runner              \* one run of an agent: pending events, outputs, history

compileVars == <<class_dict, agent, phase, error, actions, actions_by_event, routed,
                 registered>>

resolverVars == <<resources, stack, log, returned, invoked, provided>>

planVars == <<plans, document, decoded, dicts, objects, calls>>

chatVars == <<chat>>

runVars == <<runner>>

vars == <<resource_providers, resolverVars, compileVars, planVars, chatVars,
         runVars>>

Threads == 1..NThreads

CallRecord(type, name) ==
    [type |-> type, name |-> name, outcome |-> "running",
     error |-> "none", value |-> NoResource]

\* No add_* call yet.
NoRegistration == [op |-> "none", name |-> "none", outcome |-> "none",
                   value |-> "none"]

\* No get_actions call yet.
NoRoute == [event_type |-> "none", outcome |-> "none", error |-> "none",
            value |-> <<>>]

Frame(type, name) ==
    [type |-> type, name |-> name, pc |-> "L172", i |-> 0,
     got |-> <<>>, resource |-> NoResource]

Top(t) == stack[t][Len(stack[t])]

SetTop(t, f) == [stack EXCEPT ![t] = [@ EXCEPT ![Len(@)] = f]]

At(t, pc) == stack[t] /= <<>> /\ Top(t).pc = pc

\* Nothing has been encoded.
NoDocument == [source |-> 0, tampered |-> FALSE, data |-> EmptyMap]

\* Nothing has been decoded.
NoDecode == [outcome |-> "none", error |-> "none", plan |-> 0, source |-> 0,
             tampered |-> FALSE, data |-> EmptyMap, all |-> {}]

\* No chat() is running.
Idle == [pc |-> "idle"]

\* No plan instance is under observation, nothing is encoded.
NoPlans ==
    /\ plans = <<>>
    /\ document = NoDocument
    /\ decoded = NoDecode
    /\ dicts = <<EmptyMap>>
    /\ objects = {}
    /\ calls = {}

\* No chat() is in progress.
NoChat == chat = Idle

\* No event was fed to the agent.
NoRun ==
    [events |-> <<>>, inputs |-> <<>>, outputs |-> <<>>, sent |-> <<>>,
     context |-> <<>>, lookups |-> <<>>, chats |-> <<>>, tools |-> <<>>,
     error |-> "none"]

Init ==
    /\ resource_providers \in Registries
    /\ resources = EmptyMap
    /\ stack = [t \in Threads |-> <<>>]
    /\ log = [t \in Threads |-> <<>>]
    /\ returned = {}
    /\ invoked = [p \in Pairs |-> 0]
    /\ provided = [p \in Pairs |-> 0]
    /\ class_dict = <<>>
    /\ agent = NewAgent
    /\ phase = "plan"
    /\ error = "none"
    /\ actions = FromAgent(<<>>, NewAgent).actions
    /\ actions_by_event = FromAgent(<<>>, NewAgent).actions_by_event
    /\ routed = NoRoute
    /\ registered = NoRegistration
    /\ runner = NoRun
    /\ NoPlans
    /\ NoChat

\* The failure of a nested call caught by the constructor that made it
\* (try ... except: pass): the constructor goes on without the dependency.
Raise_Swallowed(t, exception) ==
    LET n == Len(stack[t])
    IN IF n >= 2
       THEN /\ stack' = [stack EXCEPT ![t] =
                   [SubSeq(@, 1, n - 1) EXCEPT ![n - 1].i = @ + 1,
                                              ![n - 1].got = Append(@, NoResource)]]
            /\ UNCHANGED log
       ELSE /\ stack' = [stack EXCEPT ![t] = <<>>]
            /\ log' = [log EXCEPT ![t][Len(log[t])].outcome = "raised",
                                  ![t][Len(log[t])].error = exception]

\* An exception leaves every frame of the thread: neither get_resource nor a
\* constructor catches anything.
Raise(t, exception) ==
    /\ stack' = [stack EXCEPT ![t] = <<>>]
    /\ log' = [log EXCEPT ![t][Len(log[t])].outcome = "raised",
                          ![t][Len(log[t])].error = exception]

\* ------------------------------------------- AgentPlan.get_resource

\* A caller (an action, through ctx.get_resource) calls get_resource(name, type).
Call(t, type, name, limit) ==
    /\ stack[t] = <<>>
    /\ Len(log[t]) < limit
    /\ stack' = [stack EXCEPT ![t] = <<Frame(type, name)>>]
    /\ log' = [log EXCEPT ![t] = Append(@, CallRecord(type, name))]
    /\ UNCHANGED <<compileVars, planVars, chatVars, runVars, resource_providers, resources, returned, invoked, provided>>

\*     self.__resources[type] = {}
L173(t) ==
    /\ At(t, "L173")
    /\ resources' = Put(resources, Top(t).type, EmptyMap)
    /\ stack' = SetTop(t, [Top(t) EXCEPT !.pc = "L174"])
    /\ UNCHANGED <<compileVars, planVars, chatVars, runVars, resource_providers, log, returned, invoked, provided>>

\* L172 with the test lost: the type's dict is made anew on every call.
L172_AlwaysReset(t) ==
    /\ At(t, "L172")
    /\ stack' = SetTop(t, [Top(t) EXCEPT !.pc = "L173"])
    /\ UNCHANGED <<compileVars, planVars, chatVars, runVars, resource_providers, resources, log, returned, invoked, provided>>

\* if type not in self.__resources:
L172(t) ==
    /\ At(t, "L172")
    /\ stack' = SetTop(t, [Top(t) EXCEPT !.pc =
                   IF Top(t).type \notin DOMAIN resources THEN "L173" ELSE "L174"])
    /\ UNCHANGED <<compileVars, planVars, chatVars, runVars, resource_providers, resources, log, returned, invoked, provided>>

\* L174 with the cache test lost: every call goes on to the provider.
L174_NoCacheTest(t) ==
    /\ At(t, "L174")
    /\ stack' = SetTop(t, [Top(t) EXCEPT !.pc = "L175"])
    /\ UNCHANGED <<compileVars, planVars, chatVars, runVars, resource_providers, resources, log, returned, invoked, provided>>

\* Line 174 with the test made on the name alone: a resource cached under
\* any kind counts as cached.
L174_NameOnly(t) ==
    /\ At(t, "L174")
    /\ stack' = SetTop(t, [Top(t) EXCEPT !.pc =
                   IF \A type \in DOMAIN resources :
                          Top(t).name \notin DOMAIN resources[type]
                   THEN "L175" ELSE "L178"])
    /\ UNCHANGED <<compileVars, planVars, chatVars, runVars, resource_providers, resources, log, returned, invoked, provided>>

\* if name not in self.__resources[type]:
L174(t) ==
    /\ At(t, "L174")
    /\ stack' = SetTop(t, [Top(t) EXCEPT !.pc =
                   IF Top(t).name \notin DOMAIN resources[Top(t).type]
                   THEN "L175" ELSE "L178"])
    /\ UNCHANGED <<compileVars, planVars, chatVars, runVars, resource_providers, resources, log, returned, invoked, provided>>

\* L175 with .get() in place of the subscripts: a missing provider gives a
\* placeholder that is cached and returned.
L175_MissingTolerated(t) ==
    /\ At(t, "L175")
    /\ stack' = SetTop(t, [Top(t) EXCEPT !.pc =
                   IF Has2(resource_providers, Top(t).type, Top(t).name)
                   THEN "L176" ELSE "L177"])
    /\ UNCHANGED <<compileVars, planVars, chatVars, runVars, resource_providers, resources, log, returned, invoked, provided>>

\*     resource_provider = self.resource_providers[type][name]
L175(t) ==
    /\ At(t, "L175")
    /\ IF Has2(resource_providers, Top(t).type, Top(t).name)
       THEN /\ stack' = SetTop(t, [Top(t) EXCEPT !.pc = "L176"])
            /\ UNCHANGED log
       ELSE Raise(t, "KeyError")
    /\ UNCHANGED <<compileVars, planVars, chatVars, runVars, resource_providers, resources, returned, invoked, provided>>

\* Line 176 with the resource put in the cache as soon as it is allocated,
\* before its constructor has resolved anything.
L176_CachedBeforeBuilt(t) ==
    /\ At(t, "L176")
    /\ invoked' = [invoked EXCEPT ![<<Top(t).type, Top(t).name>>] = @ + 1]
    /\ resources' = [resources EXCEPT ![Top(t).type] =
                        Put(@, Top(t).name, NoResource)]
    /\ stack' = SetTop(t, [Top(t) EXCEPT !.pc = "init"])
    /\ UNCHANGED <<compileVars, planVars, chatVars, runVars, resource_providers, log, returned, provided>>

\*     resource = resource_provider.provide(get_resource=self.get_resource)
\* The provider is invoked: it runs the resource's constructor.
L176(t) ==
    /\ At(t, "L176")
    /\ invoked' = [invoked EXCEPT ![<<Top(t).type, Top(t).name>>] = @ + 1]
    /\ stack' = SetTop(t, [Top(t) EXCEPT !.pc = "init"])
    /\ UNCHANGED <<compileVars, planVars, chatVars, runVars, resource_providers, resources, log, returned, provided>>

\* The constructor resolves its dependencies one by one through the
\* get_resource it was given (a nested call, on the same thread); after the
\* last one the resource exists and provide() returns it.
Construct(t) ==
    /\ At(t, "init")
    /\ LET f == Top(t)
           deps == resource_providers[f.type][f.name].deps
       IN IF f.i < Len(deps)
          THEN /\ IF Len(stack[t]) >= RecursionLimit
                  THEN Raise(t, "RecursionError")
                  ELSE /\ stack' = [stack EXCEPT ![t] =
                              Append(@, Frame(deps[f.i + 1][1], deps[f.i + 1][2]))]
                       /\ UNCHANGED log
               /\ UNCHANGED provided
          ELSE /\ provided' = [provided EXCEPT ![<<f.type, f.name>>] = @ + 1]
               /\ stack' = SetTop(t, [f EXCEPT
                              !.pc = "L177",
                              !.resource = [type |-> f.type, name |-> f.name,
                                            serial |-> provided[<<f.type, f.name>>] + 1,
                                            uses |-> f.got,
                                            kwargs |-> resource_providers[f.type]
                                                          [f.name].kwargs]])
               /\ UNCHANGED log
    /\ UNCHANGED <<compileVars, planVars, chatVars, runVars, resource_providers, resources, returned, invoked>>

\* Line 177 without its assignment: the resource is not stored.
L177_NotStored(t) ==
    /\ At(t, "L177")
    /\ stack' = SetTop(t, [Top(t) EXCEPT !.pc = "L178"])
    /\ UNCHANGED <<compileVars, planVars, chatVars, runVars, resource_providers, resources, log, returned, invoked, provided>>

\*     self.__resources[type][name] = resource
L177(t) ==
    /\ At(t, "L177")
    /\ resources' = [resources EXCEPT ![Top(t).type] =
                        Put(@, Top(t).name, Top(t).resource)]
    /\ stack' = SetTop(t, [Top(t) EXCEPT !.pc = "L178"])
    /\ UNCHANGED <<compileVars, planVars, chatVars, runVars, resource_providers, log, returned, invoked, provided>>

\* return self.__resources[type][name]
L178(t) ==
    /\ At(t, "L178")
    /\ LET f == Top(t)
           n == Len(stack[t])
       IN IF f.name \in DOMAIN resources[f.type]
          THEN LET value == resources[f.type][f.name]
               IN /\ returned' = returned \cup {value}
                  /\ IF n = 1
                     THEN /\ stack' = [stack EXCEPT ![t] = <<>>]
                          /\ log' = [log EXCEPT
                                         ![t][Len(log[t])].outcome = "returned",
                                         ![t][Len(log[t])].value = value]
                     ELSE /\ stack' = [stack EXCEPT ![t] =
                                 [SubSeq(@, 1, n - 1) EXCEPT
                                     ![n - 1].i = @ + 1,
                                     ![n - 1].got = Append(@, value)]]
                          /\ UNCHANGED log
          ELSE /\ Raise(t, "KeyError")
               /\ UNCHANGED returned
    /\ UNCHANGED <<compileVars, planVars, chatVars, runVars, resource_providers, resources, invoked, provided>>

Step(t, limit) ==
    \/ \E p \in Pairs : Call(t, p[1], p[2], limit)
    \/ L172(t)
    \/ L173(t)
    \/ L174(t)
    \/ L175(t)
    \/ L176(t)
    \/ Construct(t)
    \/ L177(t)
    \/ L178(t)

\* One caller at a time: thread 1 issues its calls one after the other.
Next == Step(1, MaxCalls)

Spec == Init /\ [][Next]_vars

\* The caller's thread keeps running: a line that can be executed is.
SpecRunning == Init /\ [][Next]_vars /\ WF_vars(Next)

\* Several threads run get_resource on the same plan instance; the code takes
\* no lock, so their lines interleave.
NextConc == \E t \in Threads : Step(t, MaxConcCalls)

SpecConc == Init /\ [][NextConc]_vars

\* ------------------------------------------- declaring and compiling agents

\* The names, event lists and event types the declarations are drawn from.
ActionNames == {"a", "b", "chat_model_action"}

ResourceNames == {"x", "y"}

EventLists ==
    {<<>>, <<InputEvent>>, <<ChatRequestEvent, InputEvent>>,
     <<InputEvent, InputEvent>>}

RoutedEventTypes ==
    {QualifiedName(InputEvent), QualifiedName(ChatRequestEvent),
     QualifiedName(OutputEvent)}

\* The keyword arguments declared under a name: plain data, or, for y, also
\* some that hold an object.
Plainness(name) == IF name = "y" THEN BOOLEAN ELSE {TRUE}

\* The keyword arguments a decorated function called name returns: they
\* carry the function's own name, as in the tests and the examples, or, for
\* x, another one, as in the example of Agent's docstring (my_connection
\* returns {"name": "conn", ...}).
ReturnedKwargs(name) ==
    {Kwargs(name, plain) : plain \in Plainness(name)}
    \cup (IF name = "x" THEN {Kwargs("conn", TRUE)} ELSE {})

\* Declarations made so far.
Decls ==
    Len(class_dict) + Len(agent.actions) + Len(agent.prompts) + Len(agent.tools)
    + Len(agent.chat_model_connections) + Len(agent.chat_models)

InitCompile ==
    /\ resource_providers = EmptyMap
    /\ resources = EmptyMap
    /\ stack = [t \in Threads |-> <<>>]
    /\ log = [t \in Threads |-> <<>>]
    /\ returned = {}
    /\ invoked = [p \in Pairs |-> 0]
    /\ provided = [p \in Pairs |-> 0]
    /\ class_dict = <<>>
    /\ agent = NewAgent
    /\ phase = "class"
    /\ error = "none"
    /\ actions = <<>>
    /\ actions_by_event = <<>>
    /\ routed = NoRoute
    /\ registered = NoRegistration
    /\ runner = NoRun
    /\ NoPlans
    /\ NoChat

\* In the body of the Agent subclass:
\*     @action(*events)
\*     @staticmethod
\*     def name(event, ctx): ...
\* action() asserts that it is given an event type; the name is then bound in
\* the class namespace, replacing an earlier member of that name.
DefineAction(name, events) ==
    /\ phase = "class"
    /\ Decls < MaxDecls \/ name \in DictKeys(class_dict)
    /\ IF Len(events) > 0
       THEN /\ class_dict' = DictSet(class_dict, name, Member("action", events))
            /\ UNCHANGED <<phase, error>>
       ELSE /\ phase' = "class_failed"
            /\ error' = "AssertionError"
            /\ UNCHANGED class_dict
    /\ UNCHANGED <<agent, actions, actions_by_event, routed, registered, resource_providers,
                   resolverVars, planVars,
                   chatVars, runVars>>

\* In the body of the Agent subclass: @chat_model, @chat_model_connection,
\* @tool or @prompt on a function called name.
DefineResource(name, marker, kwargs) ==
    /\ phase = "class"
    /\ Decls < MaxDecls \/ name \in DictKeys(class_dict)
    /\ class_dict' = DictSet(class_dict, name,
                             [Member(marker, <<>>) EXCEPT !.kwargs = kwargs])
    /\ UNCHANGED <<agent, phase, error, actions, actions_by_event, routed, registered,
                   resource_providers, resolverVars, planVars,
                   chatVars, runVars>>

\* agent = MyAgent()
Instantiate ==
    /\ phase = "class"
    /\ phase' = "agent"
    /\ agent' = NewAgent
    /\ UNCHANGED <<class_dict, error, actions, actions_by_event, routed, registered,
                   resource_providers, resolverVars, planVars,
                   chatVars, runVars>>

\* What an add_* call leaves behind: the registry it is about, the name, and
\* whether it returned (self) or raised.
Registration(op, name, outcome, value) ==
    [op |-> op, name |-> name, outcome |-> outcome, value |-> value]

\* Agent.add_action(name, events, func)
add_action(name, events, func) ==
    /\ phase = "agent"
    /\ Decls < MaxDecls \/ name \in DictKeys(agent.actions)
    /\ IF name \in DictKeys(agent.actions)
       THEN /\ error' = "ValueError"
            /\ registered' = Registration("actions", name, "raised", "none")
            /\ UNCHANGED agent
       ELSE /\ agent' = [agent EXCEPT !.actions =
                            DictSet(@, name, [events |-> events, func |-> func])]
            /\ error' = "none"
            /\ registered' = Registration("actions", name, "returned", "self")
    /\ UNCHANGED <<class_dict, phase, actions, actions_by_event, routed,
                   resource_providers, resolverVars, planVars,
                   chatVars, runVars>>

\* Agent.add_prompt(name, prompt)
add_prompt(name) ==
    /\ phase = "agent"
    /\ Decls < MaxDecls \/ name \in DictKeys(agent.prompts)
    /\ IF name \in DictKeys(agent.prompts)
       THEN /\ error' = "ValueError"
            /\ registered' = Registration("prompts", name, "raised", "none")
            /\ UNCHANGED agent
       ELSE /\ agent' = [agent EXCEPT !.prompts = DictSet(@, name, "prompt")]
            /\ error' = "none"
            /\ registered' = Registration("prompts", name, "returned", "self")
    /\ UNCHANGED <<class_dict, phase, actions, actions_by_event, routed,
                   resource_providers, resolverVars, planVars,
                   chatVars, runVars>>

\* add_tool without the test of line 141: a second registration replaces
\* the first.
add_tool_Overwrite(name) ==
    /\ phase = "agent"
    /\ Decls < MaxDecls \/ name \in DictKeys(agent.tools)
    /\ agent' = [agent EXCEPT !.tools = DictSet(@, name, "func")]
    /\ error' = "none"
    /\ registered' = Registration("tools", name, "returned", "self")
    /\ UNCHANGED <<class_dict, phase, actions, actions_by_event, routed,
                   resource_providers, resolverVars, planVars,
                   chatVars, runVars>>

\* Agent.add_tool(name, func)
add_tool(name) ==
    /\ phase = "agent"
    /\ Decls < MaxDecls \/ name \in DictKeys(agent.tools)
    /\ IF name \in DictKeys(agent.tools)
       THEN /\ error' = "ValueError"
            /\ registered' = Registration("tools", name, "raised", "none")
            /\ UNCHANGED agent
       ELSE /\ agent' = [agent EXCEPT !.tools = DictSet(@, name, "func")]
            /\ error' = "none"
            /\ registered' = Registration("tools", name, "returned", "self")
    /\ UNCHANGED <<class_dict, phase, actions, actions_by_event, routed,
                   resource_providers, resolverVars, planVars,
                   chatVars, runVars>>

\* Agent.add_chat_model_connection(name, connection, **kwargs)
add_chat_model_connection(name, plain) ==
    /\ phase = "agent"
    /\ Decls < MaxDecls \/ name \in DictKeys(agent.chat_model_connections)
    /\ IF name \in DictKeys(agent.chat_model_connections)
       THEN /\ error' = "ValueError"
            /\ registered' = Registration("chat_model_connections", name, "raised", "none")
            /\ UNCHANGED agent
       ELSE /\ agent' = [agent EXCEPT !.chat_model_connections =
                            DictSet(@, name, Kwargs(name, plain))]
            /\ error' = "none"
            /\ registered' = Registration("chat_model_connections", name, "returned", "self")
    /\ UNCHANGED <<class_dict, phase, actions, actions_by_event, routed,
                   resource_providers, resolverVars, planVars,
                   chatVars, runVars>>

\* Agent.add_chat_model(name, chat_model, **kwargs)
add_chat_model(name, plain) ==
    /\ phase = "agent"
    /\ Decls < MaxDecls \/ name \in DictKeys(agent.chat_models)
    /\ IF name \in DictKeys(agent.chat_models)
       THEN /\ error' = "ValueError"
            /\ registered' = Registration("chat_models", name, "raised", "none")
            /\ UNCHANGED agent
       ELSE /\ agent' = [agent EXCEPT !.chat_models =
                            DictSet(@, name, Kwargs(name, plain))]
            /\ error' = "none"
            /\ registered' = Registration("chat_models", name, "returned", "self")
    /\ UNCHANGED <<class_dict, phase, actions, actions_by_event, routed,
                   resource_providers, resolverVars, planVars,
                   chatVars, runVars>>

\* plan = AgentPlan.from_agent(agent)
Compile ==
    /\ phase = "agent"
    /\ LET r == FromAgent(class_dict, agent)
       IN IF r.ok
          THEN /\ phase' = "plan"
               /\ error' = "none"
               /\ actions' = r.actions
               /\ actions_by_event' = r.actions_by_event
               /\ resource_providers' = r.resource_providers
          ELSE /\ phase' = "compile_failed"
               /\ error' = r.error
               /\ UNCHANGED <<actions, actions_by_event, resource_providers>>
    /\ UNCHANGED <<class_dict, agent, routed, registered, resolverVars, planVars,
                   chatVars, runVars>>

RECURSIVE ActionsNamed(_, _)
ActionsNamed(acts, names) ==
    IF names = <<>> THEN <<>>
    ELSE <<DictGet(acts, Head(names))>> \o ActionsNamed(acts, Tail(names))

\* AgentPlan.get_actions(event_type)
get_actions(event_type) ==
    /\ phase = "plan"
    /\ routed' =
          IF event_type \in DictKeys(actions_by_event)
          THEN [event_type |-> event_type, outcome |-> "returned",
                error |-> "none",
                value |-> ActionsNamed(actions, DictGet(actions_by_event, event_type))]
          ELSE [event_type |-> event_type, outcome |-> "raised",
                error |-> "KeyError", value |-> <<>>]
    /\ UNCHANGED <<class_dict, agent, phase, error, actions, actions_by_event,
                   registered,
                   resource_providers, resolverVars, planVars,
                   chatVars, runVars>>

NextCompile ==
    \/ \E n \in ActionNames, ev \in EventLists : DefineAction(n, ev)
    \/ \E n \in ResourceNames, m \in {"chat_model", "chat_model_connection"} :
          \E kwargs \in ReturnedKwargs(n) : DefineResource(n, m, kwargs)
    \/ \E n \in ResourceNames, m \in {"tool", "prompt"} :
          DefineResource(n, m, Kwargs("none", TRUE))
    \/ Instantiate
    \/ \E n \in ActionNames, ev \in EventLists : add_action(n, ev, "func")
    \/ \E n \in ResourceNames : add_prompt(n)
    \/ \E n \in ResourceNames : add_tool(n)
    \/ \E n \in ResourceNames :
          \E plain \in Plainness(n) : add_chat_model_connection(n, plain)
    \/ \E n \in ResourceNames :
          \E plain \in Plainness(n) : add_chat_model(n, plain)
    \/ Compile
    \/ \E e \in RoutedEventTypes : get_actions(e)

SpecCompile == InitCompile /\ [][NextCompile]_vars

\* ------------------------------------------- encoding and decoding a plan

\* The four provider classes of plan/resource_provider.py.
ProviderClasses ==
    {"PythonResourceProvider", "PythonSerializableResourceProvider",
     "JavaResourceProvider", "JavaSerializableResourceProvider"}

\* The key the serializer adds to a dumped provider.
TagKey == "__resource_provider_type__"

\* isinstance(provider, clazz): none of the four classes derives from another.
IsInstance(provider, clazz) == provider.variant = clazz

\* provider.model_dump(): the provider's fields, as a dict; the class is not
\* a field.
ModelDump(provider) ==
    [name |-> provider.name, type |-> provider.type, deps |-> provider.deps,
     kwargs |-> provider.kwargs]

\* isinstance(provider, dict): a dumped provider, not a provider object.
IsDict(entry) == "variant" \notin DOMAIN entry

\* clazz.model_validate(provider): the object of that class with the dict's
\* fields; the key that is no field of the class is ignored.
ModelValidate(clazz, entry) ==
    [Provider(clazz, entry.type, entry.name, entry.deps) EXCEPT
        !.kwargs = entry.kwargs]

\* The chain of isinstance tests with the last literal mistyped.
SerializeProvider_WrongLiteral(provider) ==
    LET data == ModelDump(provider)
    IN IF IsInstance(provider, "PythonResourceProvider")
       THEN Put(data, TagKey, "PythonResourceProvider")
       ELSE IF IsInstance(provider, "PythonSerializableResourceProvider")
       THEN Put(data, TagKey, "PythonSerializableResourceProvider")
       ELSE IF IsInstance(provider, "JavaResourceProvider")
       THEN Put(data, TagKey, "JavaResourceProvider")
       ELSE IF IsInstance(provider, "JavaSerializableResourceProvider")
       THEN Put(data, TagKey, "JavaSerializableProvider")
       ELSE data

\* data[type][name] = provider.model_dump(), then the chain of isinstance
\* tests that adds the class's name under TagKey.
SerializeProvider(provider) ==
    LET data == ModelDump(provider)
    IN IF IsInstance(provider, "PythonResourceProvider")
       THEN Put(data, TagKey, "PythonResourceProvider")
       ELSE IF IsInstance(provider, "PythonSerializableResourceProvider")
       THEN Put(data, TagKey, "PythonSerializableResourceProvider")
       ELSE IF IsInstance(provider, "JavaResourceProvider")
       THEN Put(data, TagKey, "JavaResourceProvider")
       ELSE IF IsInstance(provider, "JavaSerializableResourceProvider")
       THEN Put(data, TagKey, "JavaSerializableResourceProvider")
       ELSE data

\* AgentPlan.__serialize_resource_providers
SerializeResourceProviders(providers) ==
    [type \in DOMAIN providers |->
        [name \in DOMAIN providers[type] |->
            SerializeProvider(providers[type][name])]]

\* plan.model_dump(): the three fields; __resources is a private attribute
\* and no field.
ModelDumpPlan(plan) ==
    [actions |-> plan.actions,
     actions_by_event |-> plan.actions_by_event,
     resource_providers |-> SerializeResourceProviders(plan.resource_providers)]

\* The chain of tag tests with the Java branch building the Python class.
DeserializeProvider_JavaAsPython(entry) ==
    IF IsDict(entry)
    THEN LET provider_type == entry[TagKey]
         IN IF provider_type = "PythonResourceProvider"
            THEN ModelValidate("PythonResourceProvider", entry)
            ELSE IF provider_type = "PythonSerializableResourceProvider"
            THEN ModelValidate("PythonSerializableResourceProvider", entry)
            ELSE IF provider_type = "JavaResourceProvider"
            THEN ModelValidate("PythonResourceProvider", entry)
            ELSE IF provider_type = "JavaSerializableResourceProvider"
            THEN ModelValidate("JavaSerializableResourceProvider", entry)
            ELSE entry
    ELSE entry

\* The chain of tag tests with a last branch that takes any other tag for
\* a PythonResourceProvider.
DeserializeProvider_DefaultBranch(entry) ==
    IF IsDict(entry)
    THEN LET provider_type == entry[TagKey]
         IN IF provider_type = "PythonSerializableResourceProvider"
            THEN ModelValidate("PythonSerializableResourceProvider", entry)
            ELSE IF provider_type = "JavaResourceProvider"
            THEN ModelValidate("JavaResourceProvider", entry)
            ELSE IF provider_type = "JavaSerializableResourceProvider"
            THEN ModelValidate("JavaSerializableResourceProvider", entry)
            ELSE ModelValidate("PythonResourceProvider", entry)
    ELSE entry

\* The body of the loops of __custom_deserialize: a dict whose tag names one
\* of the four classes becomes an object of that class; any other entry stays
\* as it is.
DeserializeProvider(entry) ==
    IF IsDict(entry)
    THEN LET provider_type == entry[TagKey]
         IN IF provider_type = "PythonResourceProvider"
            THEN ModelValidate("PythonResourceProvider", entry)
            ELSE IF provider_type = "PythonSerializableResourceProvider"
            THEN ModelValidate("PythonSerializableResourceProvider", entry)
            ELSE IF provider_type = "JavaResourceProvider"
            THEN ModelValidate("JavaResourceProvider", entry)
            ELSE IF provider_type = "JavaSerializableResourceProvider"
            THEN ModelValidate("JavaSerializableResourceProvider", entry)
            ELSE entry
    ELSE entry

\* provider["__resource_provider_type__"] raises KeyError for a dict
\* without the key.
TagMissing(providers) ==
    \E type \in DOMAIN providers : \E name \in DOMAIN providers[type] :
        IsDict(providers[type][name]) /\ TagKey \notin DOMAIN providers[type][name]

\* AgentPlan.__custom_deserialize, for data whose entries all have a tag.
CustomDeserialize(data) ==
    [data EXCEPT !.resource_providers =
        [type \in DOMAIN @ |->
            [name \in DOMAIN @[type] |-> DeserializeProvider(@[type][name])]]]

\* The validation of the field resource_providers, typed
\* Dict[ResourceType, Dict[str, ResourceProvider]]: ResourceProvider is the
\* abstract base of a closed set of variants, so an entry that is still a
\* dict cannot become a provider.
FieldsValid(data) ==
    \A type \in DOMAIN data.resource_providers :
        \A name \in DOMAIN data.resource_providers[type] :
            ~IsDict(data.resource_providers[type][name])

\* AgentPlan.model_validate(document): the "before" validator, then the
\* validation of the fields, then a new instance with its private attribute.
ModelValidatePlan(id, doc, ds) ==
    IF TagMissing(doc.resource_providers)
    THEN [ok |-> FALSE, error |-> "KeyError", dicts |-> ds]
    ELSE LET data == CustomDeserialize(doc)
             private == InitPrivateAttributes(ds)
         IN IF ~FieldsValid(data)
            THEN [ok |-> FALSE, error |-> "TypeError", dicts |-> ds]
            ELSE [ok |-> TRUE, error |-> "none", dicts |-> private.dicts,
                  plan |-> AgentPlan(id, data.actions, data.actions_by_event,
                                     data.resource_providers, private.ref)]

\* ------------------------------------------------ several plan instances

\* The registries of the plans that are encoded and decoded: each pair is
\* undeclared or declared by a provider of one of the four classes; the
\* constructor of a PythonResourceProvider's class may resolve other pairs.
PlanRegistryOf(v, d) ==
    LET types == {p[1] : p \in {q \in Pairs : v[q] /= "none"}}
    IN [t \in types |->
          [n \in {p[2] : p \in {q \in Pairs : v[q] /= "none" /\ q[1] = t}} |->
              Provider(v[<<t, n>>], t, n,
                       IF v[<<t, n>>] = "PythonResourceProvider" /\ n = "x"
                          /\ t /= "tool"
                       THEN d ELSE <<>>)]]

PlanRegistries ==
    {PlanRegistryOf(v, d) :
        v \in {w \in [Pairs -> {"none"} \cup ProviderClasses] :
                  w[<<"chat_model", "y">>] \in {"none", "PythonResourceProvider"}},
        d \in SeqUpTo(Pairs, MaxDeps)}

\* The class bodies whose actions the plans carry: none, or two actions that
\* share an event type.
SampleClasses ==
    {<<>>,
     <<[key |-> "a", value |-> Member("action", <<InputEvent, ChatRequestEvent>>)],
       [key |-> "b", value |-> Member("action", <<InputEvent>>)]>>}

InitPlansWith(registries, classes) ==
    /\ resource_providers = EmptyMap
    /\ resources = EmptyMap
    /\ stack = [t \in Threads |-> <<>>]
    /\ log = [t \in Threads |-> <<>>]
    /\ returned = {}
    /\ invoked = [p \in Pairs |-> 0]
    /\ provided = [p \in Pairs |-> 0]
    /\ class_dict \in classes
    /\ agent = NewAgent
    /\ phase = "plan"
    /\ error = "none"
    /\ actions = <<>>
    /\ actions_by_event = <<>>
    /\ routed = NoRoute
    /\ registered = NoRegistration
    /\ runner = NoRun
    /\ \E rp \in registries :
          LET r == FromAgent(class_dict, agent)
              private == InitPrivateAttributes(<<EmptyMap>>)
          IN /\ plans = <<AgentPlan(1, r.actions, r.actions_by_event, rp,
                                     private.ref)>>
             /\ dicts = private.dicts
    /\ document = NoDocument
    /\ decoded = NoDecode
    /\ objects = {}
    /\ calls = {}
    /\ NoChat

\* AgentPlan(actions=..., actions_by_event=..., resource_providers=...): the
\* agent of instance i is compiled once more.
NewAgentPlan(i) ==
    /\ Len(plans) < MaxPlans
    /\ LET private == InitPrivateAttributes(dicts)
       IN /\ plans' = Append(plans, AgentPlan(Len(plans) + 1, plans[i].actions,
                                              plans[i].actions_by_event,
                                              plans[i].resource_providers,
                                              private.ref))
          /\ dicts' = private.dicts
    /\ UNCHANGED <<document, decoded, objects, calls, resource_providers,
                   resolverVars, compileVars, chatVars, runVars>>

\* plan.model_dump() of instance i
Encode(i) ==
    /\ document' = [source |-> i, tampered |-> FALSE, data |-> ModelDumpPlan(plans[i])]
    /\ document' /= document
    /\ UNCHANGED <<plans, decoded, dicts, objects, calls, resource_providers,
                   resolverVars, compileVars, chatVars, runVars>>

\* The tags a document written elsewhere may carry.
ForeignTags == {"RustResourceProvider"}

\* Drop the tag of an entry.
Untagged(entry) == [k \in DOMAIN entry \ {TagKey} |-> entry[k]]

\* The document reaches decode with one entry's tag replaced or missing.
Tamper(type, name) ==
    /\ document.source /= 0
    /\ ~document.tampered
    /\ Has2(document.data.resource_providers, type, name)
    /\ \E entry \in {Put(document.data.resource_providers[type][name], TagKey, tag) :
                        tag \in ForeignTags}
                    \cup {Untagged(document.data.resource_providers[type][name])} :
          document' = [document EXCEPT
                          !.tampered = TRUE,
                          !.data.resource_providers[type][name] = entry]
    /\ UNCHANGED <<plans, decoded, dicts, objects, calls, resource_providers,
                   resolverVars, compileVars, chatVars, runVars>>

\* AgentPlan.model_validate(document)
Decode ==
    /\ document.source /= 0
    /\ Len(plans) < MaxPlans
    /\ LET r == ModelValidatePlan(Len(plans) + 1, document.data, dicts)
       IN IF r.ok
          THEN /\ plans' = Append(plans, r.plan)
               /\ dicts' = r.dicts
               /\ decoded' = [outcome |-> "decoded", error |-> "none",
                              plan |-> Len(plans) + 1,
                              source |-> document.source,
                              tampered |-> document.tampered,
                              data |-> document.data,
                              all |-> decoded.all \cup {Len(plans) + 1}]
          ELSE /\ decoded' = [outcome |-> "raised", error |-> r.error,
                              plan |-> 0, source |-> document.source,
                              tampered |-> document.tampered,
                              data |-> document.data,
                              all |-> decoded.all]
               /\ UNCHANGED <<plans, dicts>>
    /\ UNCHANGED <<document, objects, calls, resource_providers,
                   resolverVars, compileVars, chatVars, runVars>>

\* plans[i].get_resource(name, type), called by an action.
get_resource_on(i, type, name) ==
    /\ LET r == GetResource(plans[i], dicts, objects, type, name, 1)
       IN /\ plans' = [plans EXCEPT ![i] = r.plan]
          /\ dicts' = r.dicts
          /\ objects' = r.objects
          /\ calls' = calls \cup {<<i, IF r.error = "none" THEN r.value.serial[1]
                                        ELSE 0>>}
    /\ UNCHANGED <<document, decoded, resource_providers, resolverVars,
                   compileVars, chatVars, runVars>>

\* get_actions with a dict.setdefault in place of the subscript.
PlanGetActions_SetDefault(plan, event_type) ==
    IF event_type \in DictKeys(plan.actions_by_event)
    THEN [plan |-> plan, error |-> "none",
          value |-> ActionsNamed(plan.actions,
                                 DictGet(plan.actions_by_event, event_type))]
    ELSE [plan |-> [plan EXCEPT !.actions_by_event = DictSet(@, event_type, <<>>)],
          error |-> "none", value |-> <<>>]

\* AgentPlan.get_actions(event_type) of one instance.
PlanGetActions(plan, event_type) ==
    IF event_type \in DictKeys(plan.actions_by_event)
    THEN [plan |-> plan, error |-> "none",
          value |-> ActionsNamed(plan.actions,
                                 DictGet(plan.actions_by_event, event_type))]
    ELSE [plan |-> plan, error |-> "KeyError", value |-> <<>>]

\* plans[i].get_actions(event_type)
get_actions_on(i, event_type) ==
    /\ plans' = [plans EXCEPT ![i] = PlanGetActions(plans[i], event_type).plan]
    /\ UNCHANGED <<document, decoded, dicts, objects, calls, resource_providers,
                   resolverVars, compileVars, chatVars, runVars>>

\* Plans whose providers are of any of the four classes are encoded, carried
\* (possibly altered) and decoded.
InitSerde == InitPlansWith(PlanRegistries, SampleClasses)

NextSerde ==
    \/ \E i \in 1..Len(plans) : Encode(i)
    \/ \E p \in Pairs : Tamper(p[1], p[2])
    \/ Decode

SpecSerde == InitSerde /\ [][NextSerde]_vars

\* The registries of the plans whose caches are compared: those of Registries
\* in which only ("chat_model", "x") has a dependency.
CacheRegistries ==
    {rp \in Registries :
        /\ Has2(rp, "chat_model", "y") => rp["chat_model"]["y"].deps = <<>>
        /\ Has2(rp, "chat_model", "x") => Len(rp["chat_model"]["x"].deps) <= 1}

\* The event types asked of the instances: one the sample class routes, one
\* nothing routes.
AskedEventTypes == {QualifiedName(InputEvent), QualifiedName(OutputEvent)}

\* One caller uses several instances: a compiled plan, and the plans compiled
\* again or decoded from it.
InitPlans ==
    InitPlansWith(CacheRegistries, {c \in SampleClasses : c /= <<>>})

NextPlans ==
    \/ \E i \in 1..Len(plans) : NewAgentPlan(i)
    \/ \E i \in 1..Len(plans) : Encode(i)
    \/ Decode
    \/ \E i \in 1..Len(plans), p \in Pairs : get_resource_on(i, p[1], p[2])
    \/ \E i \in 1..Len(plans), e \in AskedEventTypes : get_actions_on(i, e)

SpecPlans == InitPlans /\ [][NextPlans]_vars

\* The class of the other runtime that stands where a Python class stands,
\* and back.
OtherRuntime(variant) ==
    CASE variant = "PythonResourceProvider" -> "JavaResourceProvider"
      [] variant = "JavaResourceProvider" -> "PythonResourceProvider"
      [] variant = "PythonSerializableResourceProvider" ->
             "JavaSerializableResourceProvider"
      [] variant = "JavaSerializableResourceProvider" ->
             "PythonSerializableResourceProvider"

\* The registry rp with the providers of the pairs in S taken from the other
\* runtime.
Relabelled(rp, S) ==
    [t \in DOMAIN rp |->
        [n \in DOMAIN rp[t] |->
            IF <<t, n>> \in S
            THEN [rp[t][n] EXCEPT !.variant = OtherRuntime(@)]
            ELSE rp[t][n]]]

\* Registries that mix providers of the two runtimes.
VariantRegistries ==
    {Relabelled(rp, S) : rp \in CacheRegistries, S \in SUBSET Pairs}

\* One caller resolves resources on a plan whose providers are of any class.
InitVariants ==
    InitPlansWith(VariantRegistries, {c \in SampleClasses : c /= <<>>})

NextVariants == \E p \in Pairs : get_resource_on(1, p[1], p[2])

SpecVariants == InitVariants /\ [][NextVariants]_vars

\* ------------------------------------------------ ChatModelSettings.chat

\* A segment of a prompt template: literal text, or a {key} placeholder.
Text(value) == [kind |-> "text", value |-> value]

Placeholder(key) == [kind |-> "var", value |-> key]

\* ChatMessage(role, content, extra_args)
ChatMessage(role, content, extra_args) ==
    [role |-> role, content |-> content, extra_args |-> extra_args]

\* The template filled in from the keyword arguments; a placeholder without
\* an argument stays as written.
RECURSIVE FormatString(_, _)
FormatString(template, kwargs) ==
    IF template = <<>> THEN ""
    ELSE (IF Head(template).kind = "text" THEN Head(template).value
          ELSE IF Head(template).value \in DOMAIN kwargs
               THEN kwargs[Head(template).value]
               ELSE "{" \o Head(template).value \o "}")
         \o FormatString(Tail(template), kwargs)

\* Prompt.format_messages(**kwargs): one message per template of the prompt.
FormatMessages(prompt, kwargs) ==
    [i \in 1..Len(prompt.templates) |->
        ChatMessage("user", FormatString(prompt.templates[i], kwargs), <<>>)]

\* The templates of the prompts the settings can name or carry.
HelloName == <<Text("Hello "), Placeholder("name")>>

ValueOfX == <<Text("x is "), Placeholder("x")>>

\* The Prompt a resource of type prompt is: the one declared under its name.
PromptOf(resource) ==
    [templates |-> IF resource.name = "p" THEN <<ValueOfX, HelloName>> ELSE <<>>]

\* A prompt given to the settings as an object.
InlinePrompt == [templates |-> <<HelloName>>]

\* **input_variable: the dict as keyword arguments.
KeywordArguments(d) == [key \in DictKeys(d) |-> DictGet(d, key)]

\* dict.update that keeps the value of a key it already has.
Update_KeepFirst(d, other) ==
    LET RECURSIVE Go(_, _)
        Go(acc, rest) ==
            IF rest = <<>> THEN acc
            ELSE Go(IF Head(rest).key \in DictKeys(acc) THEN acc
                    ELSE DictSet(acc, Head(rest).key, Head(rest).value),
                    Tail(rest))
    IN Go(d, other)

\* d.update(other): other's entries are set in d one by one.
Update(d, other) ==
    LET RECURSIVE Go(_, _)
        Go(acc, rest) ==
            IF rest = <<>> THEN acc
            ELSE Go(DictSet(acc, Head(rest).key, Head(rest).value), Tail(rest))
    IN Go(d, other)

\* The resources a chat model's plan may declare.
ChatPairs ==
    {<<"chat_model_connection", "conn">>, <<"prompt", "p">>,
     <<"tool", "t1">>, <<"tool", "t2">>}

ChatRegistryOf(declared) ==
    [t \in {q[1] : q \in declared} |->
        [n \in {q[2] : q \in {r \in declared : r[1] = t}} |->
            Provider(IF t = "chat_model_connection" THEN "PythonResourceProvider"
                     ELSE "PythonSerializableResourceProvider", t, n, <<>>)]]

ChatRegistries == {ChatRegistryOf(declared) : declared \in SUBSET ChatPairs}

\* ChatModelSettings(connection=..., prompt=..., tools=...)
ChatModelSettings(connection, prompt, tools) ==
    [connection |-> connection, prompt |-> prompt, tools |-> tools]

\* No Prompt object.
NoPrompt == [templates |-> <<>>]

\* The field prompt: None, the name of a prompt resource, or a Prompt.
PromptField(kind, name, object) == [kind |-> kind, name |-> name, object |-> object]

\* The field tools, and the local variable tools: None, or a list.
ToolsField(kind, value) == [kind |-> kind, value |-> value]

Settings ==
    {ChatModelSettings("conn", prompt, tools) :
        prompt \in {PromptField("None", "", NoPrompt),
                    PromptField("str", "p", NoPrompt),
                    PromptField("Prompt", "", InlinePrompt)},
        tools \in {ToolsField("None", <<>>)} \cup
                  {ToolsField("list", names) :
                      names \in {<<>>, <<"t1">>, <<"t1", "t2">>, <<"t2", "t1">>}}}

\* The extra_args of the messages a caller sends.
ExtraArgs ==
    {<<>>,
     <<[key |-> "x", value |-> "1"]>>,
     <<[key |-> "x", value |-> "2"]>>,
     <<[key |-> "name", value |-> "Bob"]>>,
     <<[key |-> "name", value |-> "Al"], [key |-> "x", value |-> "3"]>>}

Messages == {ChatMessage("user", "hi", extra_args) : extra_args \in ExtraArgs}

\* The state of a chat(messages) call at its first line.
ChatCall(settings, messages) ==
    [pc |-> "L112", self |-> settings, input |-> messages, messages |-> messages,
     connection |-> NoResource, prompt |-> NoPrompt, input_variable |-> <<>>,
     tools |-> ToolsField("None", <<>>), i |-> 0, trace |-> <<>>,
     error |-> "none"]

InitChat ==
    /\ resource_providers = EmptyMap
    /\ resources = EmptyMap
    /\ stack = [t \in Threads |-> <<>>]
    /\ log = [t \in Threads |-> <<>>]
    /\ returned = {}
    /\ invoked = [p \in Pairs |-> 0]
    /\ provided = [p \in Pairs |-> 0]
    /\ class_dict = <<>>
    /\ agent = NewAgent
    /\ phase = "plan"
    /\ error = "none"
    /\ actions = <<>>
    /\ actions_by_event = <<>>
    /\ routed = NoRoute
    /\ registered = NoRegistration
    /\ runner = NoRun
    /\ \E rp \in ChatRegistries :
          LET r == FromAgent(class_dict, agent)
              private == InitPrivateAttributes(<<EmptyMap>>)
          IN /\ plans = <<AgentPlan(1, r.actions, r.actions_by_event, rp,
                                     private.ref)>>
             /\ dicts = private.dicts
    /\ document = NoDocument
    /\ decoded = NoDecode
    /\ objects = {}
    /\ calls = {}
    /\ \E settings \in Settings, messages \in SeqUpTo(Messages, MaxMessages) :
          chat = ChatCall(settings, messages)

\* self.get_resource(name, type) inside chat(): the plan's get_resource.
Resolve(name, type) == GetResource(plans[1], dicts, objects, type, name, 1)

\* The call and its outcome r, noted in the trace.
Noted(name, type, r) ==
    [chat EXCEPT !.trace = Append(@, [op |-> "get_resource", name |-> name,
                                      type |-> type, error |-> r.error])]

\* A get_resource call of chat() with outcome r: an exception ends chat(),
\* a value takes chat() to the state bound.
ChatGetResource(name, type, r, bound) ==
    /\ plans' = [plans EXCEPT ![1] = r.plan]
    /\ dicts' = r.dicts
    /\ objects' = r.objects
    /\ chat' = IF r.error /= "none"
               THEN [Noted(name, type, r) EXCEPT !.pc = "raised", !.error = r.error]
               ELSE bound

\* connection = self.get_resource(self.connection, ResourceType.CHAT_MODEL_CONNECTION)
ChatL112 ==
    /\ chat.pc = "L112"
    /\ LET name == chat.self.connection
           r == Resolve(name, "chat_model_connection")
       IN ChatGetResource(name, "chat_model_connection", r,
                          [Noted(name, "chat_model_connection", r) EXCEPT
                              !.connection = r.value, !.pc = "L115"])
    /\ UNCHANGED <<document, decoded, calls, resource_providers, resolverVars,
                   compileVars, runVars>>

\* if self.prompt is not None:
\*     if isinstance(self.prompt, str):
\*         prompt = self.get_resource(self.prompt, ResourceType.PROMPT)
\*     else:
\*         prompt = self.prompt
ChatL115 ==
    /\ chat.pc = "L115"
    /\ IF chat.self.prompt.kind = "None"
       THEN /\ chat' = [chat EXCEPT !.pc = "L128"]
            /\ UNCHANGED <<plans, dicts, objects>>
       ELSE IF chat.self.prompt.kind = "str"
            THEN LET name == chat.self.prompt.name
                     r == Resolve(name, "prompt")
                 IN ChatGetResource(name, "prompt", r,
                                    [Noted(name, "prompt", r) EXCEPT
                                        !.prompt = PromptOf(r.value), !.pc = "L122"])
            ELSE /\ chat' = [chat EXCEPT !.prompt = chat.self.prompt.object,
                                         !.pc = "L122"]
                 /\ UNCHANGED <<plans, dicts, objects>>
    /\ UNCHANGED <<document, decoded, calls, resource_providers, resolverVars,
                   compileVars, runVars>>

\* input_variable = {}
ChatL122 ==
    /\ chat.pc = "L122"
    /\ chat' = [chat EXCEPT !.input_variable = <<>>, !.i = 0, !.pc = "L123"]
    /\ UNCHANGED <<plans, dicts, objects, document, decoded, calls,
                   resource_providers, resolverVars, compileVars, runVars>>

\* for msg in messages:
\*     input_variable.update(msg.extra_args)
ChatL123 ==
    /\ chat.pc = "L123"
    /\ chat' = IF chat.i < Len(chat.messages)
               THEN [chat EXCEPT
                        !.input_variable =
                            Update(@, chat.messages[chat.i + 1].extra_args),
                        !.i = @ + 1]
               ELSE [chat EXCEPT !.pc = "L125"]
    /\ UNCHANGED <<plans, dicts, objects, document, decoded, calls,
                   resource_providers, resolverVars, compileVars, runVars>>

\* L125 with the result of format_messages bound to another name.
ChatL125_NotRebound ==
    /\ chat.pc = "L125"
    /\ chat' = [chat EXCEPT
                   !.trace = Append(@, [op |-> "format_messages",
                                        kwargs |-> KeywordArguments(chat.input_variable)]),
                   !.pc = "L128"]
    /\ UNCHANGED <<plans, dicts, objects, document, decoded, calls,
                   resource_providers, resolverVars, compileVars, runVars>>

\* messages = prompt.format_messages(**input_variable)
ChatL125 ==
    /\ chat.pc = "L125"
    /\ chat' = [chat EXCEPT
                   !.messages = FormatMessages(chat.prompt,
                                               KeywordArguments(chat.input_variable)),
                   !.trace = Append(@, [op |-> "format_messages",
                                        kwargs |-> KeywordArguments(chat.input_variable)]),
                   !.pc = "L128"]
    /\ UNCHANGED <<plans, dicts, objects, document, decoded, calls,
                   resource_providers, resolverVars, compileVars, runVars>>

\* Lines 128-129 with the list begun before the test: tools = [].
ChatL128_EmptyList ==
    /\ chat.pc = "L128"
    /\ chat' = IF chat.self.tools.kind = "None"
               THEN [chat EXCEPT !.tools = ToolsField("list", <<>>), !.pc = "L136"]
               ELSE [chat EXCEPT !.tools = ToolsField("list", <<>>),
                                 !.i = 0, !.pc = "L131"]
    /\ UNCHANGED <<plans, dicts, objects, document, decoded, calls,
                   resource_providers, resolverVars, compileVars, runVars>>

\* tools = None
\* if self.tools is not None:
ChatL128 ==
    /\ chat.pc = "L128"
    /\ chat' = IF chat.self.tools.kind = "None"
               THEN [chat EXCEPT !.tools = ToolsField("None", <<>>), !.pc = "L136"]
               ELSE [chat EXCEPT !.tools = ToolsField("list", <<>>),
                                 !.i = 0, !.pc = "L131"]
    /\ UNCHANGED <<plans, dicts, objects, document, decoded, calls,
                   resource_providers, resolverVars, compileVars, runVars>>

\* The comprehension with a tool that cannot be resolved left out.
ChatL131_SkipMissing ==
    /\ chat.pc = "L131"
    /\ IF chat.i < Len(chat.self.tools.value)
       THEN LET name == chat.self.tools.value[chat.i + 1]
                r == Resolve(name, "tool")
            IN /\ plans' = [plans EXCEPT ![1] = r.plan]
               /\ dicts' = r.dicts
               /\ objects' = r.objects
               /\ chat' = IF r.error /= "none"
                          THEN [Noted(name, "tool", r) EXCEPT !.i = @ + 1]
                          ELSE [Noted(name, "tool", r) EXCEPT
                                   !.tools.value = Append(@, r.value), !.i = @ + 1]
       ELSE /\ chat' = [chat EXCEPT !.pc = "L136"]
            /\ UNCHANGED <<plans, dicts, objects>>
    /\ UNCHANGED <<document, decoded, calls, resource_providers, resolverVars,
                   compileVars, runVars>>

\* tools = [self.get_resource(tool_name, ResourceType.TOOL)
\*          for tool_name in self.tools]
ChatL131 ==
    /\ chat.pc = "L131"
    /\ IF chat.i < Len(chat.self.tools.value)
       THEN LET name == chat.self.tools.value[chat.i + 1]
                r == Resolve(name, "tool")
            IN ChatGetResource(name, "tool", r,
                               [Noted(name, "tool", r) EXCEPT
                                   !.tools.value = Append(@, r.value), !.i = @ + 1])
       ELSE /\ chat' = [chat EXCEPT !.pc = "L136"]
            /\ UNCHANGED <<plans, dicts, objects>>
    /\ UNCHANGED <<document, decoded, calls, resource_providers, resolverVars,
                   compileVars, runVars>>

\* return connection.chat(messages, tools=tools, **kwargs)
ChatL136 ==
    /\ chat.pc = "L136"
    /\ chat' = [chat EXCEPT
                   !.trace = Append(@, [op |-> "connection.chat",
                                        connection |-> chat.connection,
                                        messages |-> chat.messages,
                                        tools |-> chat.tools]),
                   !.pc = "done"]
    /\ UNCHANGED <<plans, dicts, objects, document, decoded, calls,
                   resource_providers, resolverVars, compileVars, runVars>>

NextChat ==
    \/ ChatL112
    \/ ChatL115
    \/ ChatL122
    \/ ChatL123
    \/ ChatL125
    \/ ChatL128
    \/ ChatL131
    \/ ChatL136

SpecChat == InitChat /\ [][NextChat]_vars

\* ------------------------------------------------------ running an agent

\* ChatMessage(role, content, extra_args, tool_calls)
Message(role, content, extra_args, tool_calls) ==
    [role |-> role, content |-> content, extra_args |-> extra_args,
     tool_calls |-> tool_calls]

NoMessage == Message("none", "", <<>>, <<>>)

\* {"function": {"name": name, "arguments": arguments}}
ToolCall(name, arguments) == [name |-> name, arguments |-> arguments]

\* An event of the given type under a key, its payload fields empty.
Event(type, key) ==
    [type |-> QualifiedName(type), key |-> key, input |-> "", model |-> "none",
     messages |-> <<>>, response |-> NoMessage, tool_calls |-> <<>>,
     responses |-> <<>>, output |-> ""]

\* A member whose decorated function returns the given declaration.
MemberWith(marker, events, kwargs) ==
    [Member(marker, events) EXCEPT !.kwargs = kwargs]

\* "\n".join(contents)
RECURSIVE Join(_)
Join(contents) ==
    IF contents = <<>> THEN ""
    ELSE IF Len(contents) = 1 THEN Head(contents)
         ELSE Head(contents) \o "\n" \o Join(Tail(contents))

Contents(messages) == [i \in 1..Len(messages) |-> messages[i].content]

SumTask == "calculate the sum of 1 and 2."

FirstMessage == "the first message."

\* "sum" in content, for the contents a run can hold: the inputs, what the
\* models answer and what the tools return.
MentionsSum(content) == content = SumTask

\* The value a call leaves: the exception raised (or "none") and the reply.
Outcome(exception, value) == [error |-> exception, value |-> value]

\* MockChatModelImpl.chat
MockChatModelImplChat(self, messages) ==
    Outcome("none",
            Message("assistant",
                    messages[1].content \o " " \o self.kwargs.args.host \o " "
                    \o self.kwargs.args.desc, <<>>, <<>>))

\* MockChatModelConnection.chat
MockChatModelConnectionChat(self, messages) ==
    Outcome("none", Message("assistant", Join(Contents(messages)), <<>>, <<>>))

\* The prompt MockChatModel.__init__ bound: the resource its get_resource
\* call for the prompt returned.
BoundPrompt(self) ==
    LET ps == {i \in 1..Len(self.uses) : self.uses[i].type = "prompt"}
    IN IF ps = {} THEN NoArgs.text
       ELSE self.uses[CHOOSE i \in ps : TRUE].kwargs.args.text

\* MockChatModel.chat with the test on the last message inverted.
MockChatModelChat_NeverCalls(self, messages) ==
    Outcome("none", Message("assistant", Join(Contents(messages)), <<>>, <<>>))

\* MockChatModel.chat
MockChatModelChat(self, messages) ==
    IF MentionsSum(messages[Len(messages)].content)
    THEN IF self.uses = <<>> \/ self.uses[1].name /= "add"
         THEN Outcome("AssertionError", NoMessage)
         ELSE Outcome("none",
                      Message("assistant",
                              FormatString(BoundPrompt(self),
                                           KeywordArguments(
                                               messages[Len(messages)].extra_args)),
                              <<>>, <<ToolCall("add", <<1, 2>>)>>))
    ELSE Outcome("none", Message("assistant", Join(Contents(messages)), <<>>, <<>>))

\* chat_model.chat(messages), by the class of the resource.
ChatOf(self, messages) ==
    CASE self.kwargs.args.clazz = "MockChatModelImpl" ->
            MockChatModelImplChat(self, messages)
      [] self.kwargs.args.clazz = "MockChatModel" ->
            MockChatModelChat(self, messages)
      [] OTHER -> MockChatModelConnectionChat(self, messages)

\* tool.call(*arguments): the function the tool wraps is run.
ToolCallOf(tool, arguments) ==
    CASE tool.kwargs.args.func = "add" -> ToString(arguments[1] + arguments[2])
      [] tool.kwargs.args.func = "mock_tool" ->
            arguments[1] \o " mock tools just for testing."
      [] OTHER -> arguments[1] \o " " \o tool.kwargs.args.func

\* What an action works on: the plan and the objects behind it, and the run.
Context(plan, ds, objs, run) ==
    [plan |-> plan, dicts |-> ds, objects |-> objs, run |-> run]

\* An exception leaves the action: the run stops with it.
Fail(c, exception) == [c EXCEPT !.run.error = exception]

\* ctx.send_event(event)
SendEvent(c, event) ==
    [c EXCEPT !.run.events = Append(@, event), !.run.sent = Append(@, event)]

\* ctx.get_resource(name, type): the plan's get_resource.
CtxGetResource(c, key, name, type) ==
    With(GetResource(c.plan, c.dicts, c.objects, type, name, 1),
         LAMBDA r :
            [error |-> r.error, value |-> r.value,
             ctx |-> [c EXCEPT !.plan = r.plan, !.dicts = r.dicts,
                               !.objects = r.objects,
                               !.run.lookups =
                                   Append(@, [key |-> key, type |-> type,
                                              name |-> name, error |-> r.error,
                                              value |-> r.value])]])

\* The chat of a chat model, noted in the run.
Chatted(c, key, requested, self, messages, reply) ==
    [c EXCEPT !.run.chats =
        Append(@, [key |-> key, requested |-> requested, model |-> self.name,
                   messages |-> messages, reply |-> reply])]

\* The call of a tool, noted in the run.
Called(c, key, tool, arguments, result) ==
    [c EXCEPT !.run.tools =
        Append(@, [key |-> key, name |-> tool.name, func |-> tool.kwargs.args.func,
                   arguments |-> arguments, result |-> result])]

\* MyAgent.mock_action
mock_action(event, c) ==
    With(CtxGetResource(c, event.key, "mock_chat_model", "chat_model"),
         LAMBDA m :
            IF m.error /= "none" THEN Fail(m.ctx, m.error)
            ELSE With(CtxGetResource(m.ctx, event.key, "mock_tool", "tool"),
                      LAMBDA t :
                         IF t.error /= "none" THEN Fail(t.ctx, t.error)
                         ELSE LET messages ==
                                      <<Message("user", event.input, <<>>, <<>>)>>
                                  reply == ChatOf(m.value, messages).value
                                  result == ToolCallOf(t.value, <<"call">>)
                              IN SendEvent(
                                     Called(Chatted(t.ctx, event.key,
                                                    "mock_chat_model", m.value,
                                                    messages, reply),
                                            event.key, t.value, <<"call">>,
                                            result),
                                     [Event(OutputEvent, event.key) EXCEPT
                                         !.output =
                                             reply.content \o " " \o result])))

\* MyAgent.process_input
process_input(event, c) ==
    SendEvent(c, [Event(ChatRequestEvent, event.key) EXCEPT
                     !.model = "new_chat_model",
                     !.messages =
                         <<Message("user", event.input,
                                   <<[key |-> "task", value |-> event.input]>>,
                                   <<>>)>>])

\* process_chat_response that sends nothing.
process_chat_response_Silent(event, c) == c

\* MyAgent.process_chat_response
process_chat_response(event, c) ==
    SendEvent(c, [Event(OutputEvent, event.key) EXCEPT
                     !.output = event.response.content])

\* The messages a ToolResponseEvent's results become.
ToolMessages(responses) ==
    [i \in 1..Len(responses) |-> Message("tool", responses[i], <<>>, <<>>)]

\* What the chat action does with the answer r of the chat model m.
Answered(event, m, r) ==
    IF r.error /= "none" THEN Fail(m.ctx, r.error)
    ELSE With(Chatted(m.ctx, event.key, event.model, m.value, event.messages,
                      r.value),
              LAMBDA c1 :
                 IF r.value.tool_calls /= <<>>
                 THEN SendEvent(
                          [c1 EXCEPT !.run.context =
                              DictSet(@, event.key,
                                      [model |-> event.model,
                                       messages |->
                                           Append(event.messages, r.value)])],
                          [Event(ToolRequestEvent, event.key) EXCEPT
                              !.model = event.model,
                              !.tool_calls = r.value.tool_calls])
                 ELSE SendEvent(c1,
                                [Event(ChatResponseEvent, event.key) EXCEPT
                                    !.messages = event.messages,
                                    !.response = r.value]))

\* chat_model_action.process_chat_request_or_tool_response: a chat request
\* is answered by the chat model it names; an answer with tool calls is kept
\* with the request's messages and the tools are asked for, any other answer
\* is the response. A tool response is a new request to the same model: the
\* kept messages, then the results.
process_chat_request_or_tool_response(event, c) ==
    IF event.type = QualifiedName(ChatRequestEvent)
    THEN With(CtxGetResource(c, event.key, event.model, "chat_model"),
              LAMBDA m :
                 IF m.error /= "none" THEN Fail(m.ctx, m.error)
                 ELSE With(ChatOf(m.value, event.messages),
                           LAMBDA r : Answered(event, m, r)))
    ELSE IF event.key \notin DictKeys(c.run.context) THEN Fail(c, "KeyError")
         ELSE LET kept == DictGet(c.run.context, event.key)
              IN SendEvent(c, [Event(ChatRequestEvent, event.key) EXCEPT
                                  !.model = kept.model,
                                  !.messages = kept.messages
                                               \o ToolMessages(event.responses)])

\* tool_call_action.process_tool_request: each tool named is looked up and
\* called, in order; the results are one ToolResponseEvent.
RECURSIVE CallTools(_, _, _, _)
CallTools(c, key, tool_calls, responses) ==
    IF tool_calls = <<>> THEN [ctx |-> c, error |-> "none", value |-> responses]
    ELSE With(CtxGetResource(c, key, Head(tool_calls).name, "tool"),
              LAMBDA t :
                 IF t.error /= "none"
                 THEN [ctx |-> t.ctx, error |-> t.error, value |-> responses]
                 ELSE With(ToolCallOf(t.value, Head(tool_calls).arguments),
                           LAMBDA result :
                              With(Called(t.ctx, key, t.value,
                                          Head(tool_calls).arguments, result),
                                   LAMBDA c1 :
                                      CallTools(c1, key, Tail(tool_calls),
                                                Append(responses, result)))))

process_tool_request(event, c) ==
    With(CallTools(c, event.key, event.tool_calls, <<>>),
         LAMBDA r :
            IF r.error /= "none" THEN Fail(r.ctx, r.error)
            ELSE SendEvent(r.ctx, [Event(ToolResponseEvent, event.key) EXCEPT
                                      !.responses = r.value]))

\* action.exec(event, ctx)
Exec(action, event, c) ==
    CASE action.exec = "mock_action" -> mock_action(event, c)
      [] action.exec = "process_input" -> process_input(event, c)
      [] action.exec = "process_chat_response" -> process_chat_response(event, c)
      [] action.exec = "process_chat_request_or_tool_response" ->
            process_chat_request_or_tool_response(event, c)
      [] action.exec = "process_tool_request" -> process_tool_request(event, c)
      [] OTHER -> c

\* for action in plan.get_actions(event_type): action.exec(event, ctx)
RECURSIVE ExecAll(_, _, _)
ExecAll(acts, event, c) ==
    IF acts = <<>> \/ c.run.error /= "none" THEN c
    ELSE With(Exec(Head(acts), event, c),
              LAMBDA c1 : ExecAll(Tail(acts), event, c1))

\* The agent of test_get_resource_in_action.py.
GetResourceAgent(host) ==
    <<[key |-> "mock_chat_model",
       value |-> MemberWith("chat_model", <<>>,
                            [name |-> "mock_chat_model", plain |-> TRUE,
                             args |-> [NoArgs EXCEPT
                                          !.clazz = "MockChatModelImpl",
                                          !.host = host,
                                          !.desc = "mock chat model just for testing."]])],
      [key |-> "mock_tool", value |-> Member("tool", <<>>)],
      [key |-> "mock_action", value |-> Member("action", <<InputEvent>>)]>>

\* Declarations added to the instance under the names of the other kind:
\* a tool named as the chat model is, a chat model named as the tool is.
NamesakesAdded ==
    [NewAgent EXCEPT
        !.tools = <<[key |-> "mock_chat_model", value |-> "other_tool"]>>,
        !.chat_models =
            <<[key |-> "mock_tool",
               value |-> [name |-> "mock_tool", plain |-> TRUE,
                          args |-> [NoArgs EXCEPT !.clazz = "MockChatModelImpl",
                                                  !.host = "0.0.0.0",
                                                  !.desc = "another model."]]]>>]

PleaseCall ==
    <<Text("Please call the appropriate tool to do the following task: "),
      Placeholder("task")>>

\* The agent of test_built_in_actions.py.
BuiltInAgent(text) ==
    <<[key |-> "prompt",
       value |-> MemberWith("prompt", <<>>,
                            [name |-> "prompt", plain |-> TRUE,
                             args |-> [NoArgs EXCEPT !.text = text]])],
      [key |-> "mock_connection",
       value |-> MemberWith("chat_model_connection", <<>>,
                            [name |-> "mock_connection", plain |-> TRUE,
                             args |-> [NoArgs EXCEPT
                                          !.clazz = "MockChatModelConnection"]])],
      [key |-> "new_chat_model",
       value |-> MemberWith("chat_model", <<>>,
                            [name |-> "new_chat_model", plain |-> TRUE,
                             args |-> [NoArgs EXCEPT
                                          !.clazz = "MockChatModel",
                                          !.connection = "mock_connection",
                                          !.prompt = "prompt",
                                          !.tools = <<"add">>]])],
      [key |-> "add", value |-> Member("tool", <<>>)],
      [key |-> "process_input", value |-> Member("action", <<InputEvent>>)],
      [key |-> "process_chat_response",
       value |-> Member("action", <<ChatResponseEvent>>)]>>

Hosts == {"8.8.8.8", "1.1.1.1"}

PromptTexts == {PleaseCall, <<Placeholder("task"), Text(" (use a tool)")>>}

\* The agents run: class body and instance.
RunAgents ==
    {<<GetResourceAgent(host), ag>> : host \in Hosts,
                                      ag \in {NewAgent, NamesakesAdded}}
    \cup {<<BuiltInAgent(text), NewAgent>> : text \in PromptTexts}

\* The records of the input list: the keys, and the values.
RunKeys == {"bob", "0001", "0002"}

RunValues == {FirstMessage, SumTask}

\* env.from_list(input_list).apply(agent).to_list(): the agent is compiled.
InitRun ==
    /\ resource_providers = EmptyMap
    /\ resources = EmptyMap
    /\ stack = [t \in Threads |-> <<>>]
    /\ log = [t \in Threads |-> <<>>]
    /\ returned = {}
    /\ invoked = [p \in Pairs |-> 0]
    /\ provided = [p \in Pairs |-> 0]
    /\ \E a \in RunAgents : class_dict = a[1] /\ agent = a[2]
    /\ phase = "plan"
    /\ error = "none"
    /\ actions = <<>>
    /\ actions_by_event = <<>>
    /\ routed = NoRoute
    /\ registered = NoRegistration
    /\ LET r == FromAgent(class_dict, agent)
           private == InitPrivateAttributes(<<EmptyMap>>)
       IN /\ plans = <<AgentPlan(1, r.actions, r.actions_by_event,
                                  r.resource_providers, private.ref)>>
          /\ dicts = private.dicts
    /\ document = NoDocument
    /\ decoded = NoDecode
    /\ objects = {}
    /\ calls = {}
    /\ NoChat
    /\ runner = NoRun

\* input_list.append({"key": key, "value": value}): the record reaches the
\* agent as an InputEvent under its key, once the events of the record before
\* it are all handled.
Feed(key, value) ==
    /\ runner.error = "none"
    /\ runner.events = <<>>
    /\ Len(runner.inputs) < MaxInputs
    /\ \A i \in 1..Len(runner.inputs) : runner.inputs[i].key /= key
    /\ runner' = [runner EXCEPT
                     !.inputs = Append(@, [key |-> key, value |-> value]),
                     !.events = Append(@, [Event(InputEvent, key) EXCEPT
                                              !.input = value])]
    /\ UNCHANGED <<resource_providers, resolverVars, compileVars, planVars,
                   chatVars>>

\* One round of the runner's loop: the oldest pending event is taken; an
\* OutputEvent goes to the output list under its key, any other event to the
\* actions that listen to its type, in the plan's order.
Dispatch ==
    /\ runner.error = "none"
    /\ runner.events /= <<>>
    /\ LET event == Head(runner.events)
           rest == [runner EXCEPT !.events = Tail(@)]
       IN IF event.type = QualifiedName(OutputEvent)
          THEN /\ runner' = [rest EXCEPT
                                !.outputs = Append(@, [key |-> event.key,
                                                       value |-> event.output])]
               /\ UNCHANGED <<plans, dicts, objects>>
          ELSE LET a == PlanGetActions(plans[1], event.type)
               IN IF a.error /= "none"
                  THEN /\ runner' = [rest EXCEPT !.error = a.error]
                       /\ UNCHANGED <<plans, dicts, objects>>
                  ELSE \E c \in {ExecAll(a.value, event,
                                         Context(a.plan, dicts, objects, rest))} :
                          /\ runner' = c.run
                          /\ plans' = [plans EXCEPT ![1] = c.plan]
                          /\ dicts' = c.dicts
                          /\ objects' = c.objects
    /\ UNCHANGED <<document, decoded, calls, resource_providers, resolverVars,
                   compileVars, chatVars>>

NextRun ==
    \/ \E key \in RunKeys, value \in RunValues : Feed(key, value)
    \/ Dispatch

\* env.execute() runs the loop until no event is pending.
SpecRun == InitRun /\ [][NextRun]_vars /\ WF_vars(Dispatch)

\* ---------------------------------------------------------------- claims

\* The resources get_resource calls have returned for pair p.
ReturnedFor(p) == {r \in returned : r.type = p[1] /\ r.name = p[2]}

\* The finished or running top-level calls: <<thread, index>>.
LogEntries == {e \in Threads \X (1..MaxCalls) : e[2] <= Len(log[e[1]])}

Entry(e) == log[e[1]][e[2]]

\* C1: with one caller issuing get_resource calls one after the other, all
\* calls that return for the same (type, name) return the identical resource,
\* and that pair's provider has then built exactly one resource.
C1_SameInstanceBuiltOnce ==
    \A p \in Pairs :
        /\ Cardinality(ReturnedFor(p)) <= 1
        /\ ReturnedFor(p) /= {} => (invoked[p] = 1 /\ provided[p] = 1)

\* Two calls for the same pair have both returned.
C1_Witness ==
    /\ Len(log[1]) = 2
    /\ log[1][1].type = log[1][2].type
    /\ log[1][1].name = log[1][2].name
    /\ log[1][1].outcome = "returned"
    /\ log[1][2].outcome = "returned"

\* C2: however the first calls of several callers for the same pair
\* interleave, the pair's provider builds its resource at most once.
C2_BuiltAtMostOnce == \A p \in Pairs : provided[p] <= 1

\* C3: every caller that has returned holds the resource that is in the cache
\* for its pair (none returns an instance the cache does not end up with).
C3_ReturnedIsCached ==
    \A e \in LogEntries :
        Entry(e).outcome = "returned" =>
            /\ Has2(resources, Entry(e).type, Entry(e).name)
            /\ resources[Entry(e).type][Entry(e).name] = Entry(e).value

\* C4: a pair requested again while its own construction is in progress is
\* refused: its provider is never invoked a second time inside its own
\* construction.
C4_ReentryRefused ==
    \A t \in Threads :
        \A i, j \in 1..Len(stack[t]) :
            (/\ i < j
             /\ stack[t][i].type = stack[t][j].type
             /\ stack[t][i].name = stack[t][j].name)
            => stack[t][j].pc /= "init"

\* C5: a call for a pair without a provider (unknown name under a known type,
\* or a type with no providers) raises the registry's lookup error, and no
\* get_resource call, nested ones included, ever returns a resource for it.
C5_UndeclaredFails ==
    /\ \A r \in returned : Has2(resource_providers, r.type, r.name)
    /\ \A e \in LogEntries :
          ~Has2(resource_providers, Entry(e).type, Entry(e).name) =>
              \/ Entry(e).outcome = "running"
              \/ Entry(e).outcome = "raised" /\ Entry(e).error = "KeyError"

\* One call failed for a type with no providers, one for an unknown name
\* under a type that has providers.
C5_Witness ==
    /\ Len(log[1]) = 2
    /\ log[1][1].type \notin DOMAIN resource_providers
    /\ log[1][1].outcome = "raised"
    /\ log[1][2].type \in DOMAIN resource_providers
    /\ log[1][2].name \notin DOMAIN resource_providers[log[1][2].type]
    /\ log[1][2].outcome = "raised"

RECURSIVE NamesOf(_)
NamesOf(acts) ==
    IF acts = <<>> THEN <<>> ELSE <<Head(acts).name>> \o NamesOf(Tail(acts))

\* The declared actions in the order they are gathered: decorated members,
\* add_action registrations, built-in actions.
GatherOrder == NamesOf(GetActions(class_dict, agent)) \o NamesOf(BUILT_IN_ACTIONS)

Position(name, order) == CHOOSE i \in 1..Len(order) : order[i] = name

BuiltInNames == {BUILT_IN_ACTIONS[i].name : i \in 1..Len(BUILT_IN_ACTIONS)}

\* from_agent has run, with or without success.
Compiled == phase \in {"plan", "compile_failed"}

\* No plan came out of the compilation.
NoPlan == actions = <<>> /\ actions_by_event = <<>> /\ resource_providers = EmptyMap

HasDuplicateActionName ==
    \E i, j \in 1..Len(GatherOrder) : i < j /\ GatherOrder[i] = GatherOrder[j]

DeclaredProviders == GetResourceProviders(class_dict, agent)

HasDuplicateProvider ==
    \E i, j \in 1..Len(DeclaredProviders) :
        /\ i < j
        /\ DeclaredProviders[i].type = DeclaredProviders[j].type
        /\ DeclaredProviders[i].name = DeclaredProviders[j].name

\* C6: in a compiled plan every action is listed under each event type it
\* listens to, and every dispatch list keeps the order in which the actions
\* were gathered (decorated members, then add_action registrations, then
\* built-ins).
C6_DispatchKeepsGatherOrder ==
    phase = "plan" =>
        /\ \A k \in 1..Len(actions) :
              \A e \in 1..Len(actions[k].value.listen_event_types) :
                 LET t == actions[k].value.listen_event_types[e]
                 IN /\ t \in DictKeys(actions_by_event)
                    /\ \E i \in 1..Len(DictGet(actions_by_event, t)) :
                          DictGet(actions_by_event, t)[i] = actions[k].key
        /\ \A k \in 1..Len(actions_by_event) :
              \A i, j \in 1..Len(actions_by_event[k].value) :
                 i < j => Position(actions_by_event[k].value[i], GatherOrder)
                          <= Position(actions_by_event[k].value[j], GatherOrder)

\* A plan in which two user actions listen to one event type.
C6_Witness ==
    /\ phase = "plan"
    /\ \E k \in 1..Len(actions_by_event) :
          /\ Len(actions_by_event[k].value) >= 2
          /\ actions_by_event[k].value[1] \notin BuiltInNames
          /\ actions_by_event[k].value[2] \notin BuiltInNames
          /\ actions_by_event[k].value[1] /= actions_by_event[k].value[2]

\* C7: in every dispatch list of a compiled plan no built-in action precedes
\* a user action.
C7_BuiltInsLast ==
    phase = "plan" =>
        \A k \in 1..Len(actions_by_event) :
            \A i, j \in 1..Len(actions_by_event[k].value) :
                (i < j /\ actions_by_event[k].value[i] \in BuiltInNames)
                => actions_by_event[k].value[j] \in BuiltInNames

\* A dispatch list with a user action and a built-in action.
C7_Witness ==
    /\ phase = "plan"
    /\ \E k \in 1..Len(actions_by_event) :
          \E i, j \in 1..Len(actions_by_event[k].value) :
              /\ actions_by_event[k].value[i] \notin BuiltInNames
              /\ actions_by_event[k].value[j] \in BuiltInNames

\* C8: get_actions on an event type no action listens to returns the empty
\* list and raises nothing.
C8_UnroutedReturnsEmpty ==
    (routed.outcome /= "none" /\ routed.event_type \notin DictKeys(actions_by_event))
    => (routed.outcome = "returned" /\ routed.value = <<>>)

\* C9: compiling an agent in which two actions share a name (a decorated
\* member and an add_action registration, or a user action and a built-in)
\* raises the duplicate-name assertion and leaves no plan.
C9_DuplicateActionFails ==
    (Compiled /\ HasDuplicateActionName) =>
        (phase = "compile_failed" /\ error = "AssertionError" /\ NoPlan)

\* A compilation failed for an agent whose decorated member and add_action
\* registration share a name.
C9_Witness ==
    /\ phase = "compile_failed"
    /\ \E n \in DictKeys(agent.actions) :
          n \in DictKeys(class_dict) /\ DictGet(class_dict, n).marker = "action"

\* C10: compilation fails, leaving no plan, when two providers of one type
\* share a name; it accepts one name under two types; and a compiled plan
\* holds every declared provider under its own type and name.
C10_ProviderNameUniqueInKind ==
    /\ (Compiled /\ HasDuplicateProvider) => (phase = "compile_failed" /\ NoPlan)
    /\ (Compiled /\ ~HasDuplicateProvider /\ ~HasDuplicateActionName)
          => phase = "plan"
    /\ phase = "plan" =>
          /\ \A i \in 1..Len(DeclaredProviders) :
                /\ Has2(resource_providers, DeclaredProviders[i].type,
                        DeclaredProviders[i].name)
                /\ resource_providers[DeclaredProviders[i].type]
                                     [DeclaredProviders[i].name]
                   = DeclaredProviders[i]
          /\ \A t \in DOMAIN resource_providers :
                \A n \in DOMAIN resource_providers[t] :
                    /\ resource_providers[t][n].type = t
                    /\ resource_providers[t][n].name = n

\* A compiled plan holding one name under two types, one provider from a
\* decorated member and one from a registration.
C10_Witness ==
    /\ phase = "plan"
    /\ \E n \in ResourceNames :
          /\ Cardinality({t \in DOMAIN resource_providers :
                             n \in DOMAIN resource_providers[t]}) = 2
          /\ n \in DictKeys(class_dict)
          /\ Len(class_dict) = 1

\* The three fields of a plan.
PlanFields(plan) ==
    [actions |-> plan.actions, actions_by_event |-> plan.actions_by_event,
     resource_providers |-> plan.resource_providers]

\* The providers of a registry or the entries of a document: <<type, name>>.
Entries(providers) ==
    {<<type, name>> : type \in DOMAIN providers, name \in ResourceNames} \cap
    {e \in ResourceType \X ResourceNames : Has2(providers, e[1], e[2])}

\* The resources in the cache of instance i.
CacheOf(i) ==
    LET cache == dicts[plans[i].resources]
    IN UNION {{cache[type][name] : name \in DOMAIN cache[type]} : type \in DOMAIN cache}

C12_EveryEntryTagged ==
    (document.source /= 0 /\ ~document.tampered) =>
        LET providers == plans[document.source].resource_providers
            data == document.data.resource_providers
        IN /\ Entries(data) = Entries(providers)
           /\ \A e \in Entries(providers) :
                 /\ TagKey \in DOMAIN data[e[1]][e[2]]
                 /\ data[e[1]][e[2]][TagKey] \in ProviderClasses
                 /\ data[e[1]][e[2]][TagKey] = providers[e[1]][e[2]].variant

C12_Witness ==
    /\ document.source /= 0
    /\ ~document.tampered
    /\ Has2(document.data.resource_providers, "tool", "x")
    /\ document.data.resource_providers["tool"]["x"][TagKey]
          = "JavaSerializableResourceProvider"
    /\ Has2(document.data.resource_providers, "chat_model", "x")
    /\ document.data.resource_providers["chat_model"]["x"][TagKey]
          = "PythonResourceProvider"

\* An entry of the document whose tag names none of the four classes.
ForeignEntries(data) ==
    {e \in Entries(data.resource_providers) :
        /\ TagKey \in DOMAIN data.resource_providers[e[1]][e[2]]
        /\ data.resource_providers[e[1]][e[2]][TagKey] \notin ProviderClasses}

C14_DecodedCacheIsFresh ==
    \A k \in decoded.all :
        /\ \A r \in CacheOf(k) : r.serial[1] = k
        /\ \A c \in calls : c[1] = k => c[2] \in {0, k}

C14_Witness ==
    /\ decoded.outcome = "decoded"
    /\ <<decoded.plan, decoded.plan>> \in calls
    /\ \E r \in CacheOf(decoded.source), q \in CacheOf(decoded.plan) :
          /\ r.type = q.type
          /\ r.name = q.name
          /\ r.serial /= q.serial
          /\ r.uses /= <<>>

C16_PlanFieldsFrozen ==
    [][\A i \in 1..Len(plans) : PlanFields(plans'[i]) = PlanFields(plans[i])]_vars

C16_Witness ==
    /\ <<1, 0>> \in calls
    /\ <<1, 1>> \in calls
    /\ CacheOf(1) /= {}
    /\ Len(plans[1].actions) = 4

\* C17: with one caller, a resource once in the cache stays there: no step
\* removes the entry of a (type, name) or puts another resource in its place.
C17_CacheOnlyGrows ==
    [][\A type \in DOMAIN resources :
          /\ type \in DOMAIN resources'
          /\ \A name \in DOMAIN resources[type] :
                /\ name \in DOMAIN resources'[type]
                /\ resources'[type][name] = resources[type][name]]_vars

C17_Witness ==
    /\ Has2(resources, "chat_model", "x")
    /\ Has2(resources, "chat_model", "y")
    /\ Has2(resources, "tool", "x")
    /\ Len(log[1]) = 2

\* The places of the trace where op happened.
Events(op) == {i \in 1..Len(chat.trace) : chat.trace[i].op = op}

\* The keys of the messages' extra_args.
KeysOf(messages) ==
    UNION {DictKeys(messages[i].extra_args) : i \in 1..Len(messages)}

\* The last message whose extra_args has key.
LastWith(messages, key) ==
    CHOOSE i \in 1..Len(messages) :
        /\ key \in DictKeys(messages[i].extra_args)
        /\ \A j \in (i + 1)..Len(messages) : key \notin DictKeys(messages[j].extra_args)

\* Every key of any message, with the value the last message having it gives.
MergedContext(messages) ==
    [key \in KeysOf(messages) |->
        DictGet(messages[LastWith(messages, key)].extra_args, key)]

\* The Prompt the settings declare.
DeclaredPrompt ==
    IF chat.self.prompt.kind = "str"
    THEN PromptOf([NoResource EXCEPT !.type = "prompt", !.name = chat.self.prompt.name])
    ELSE chat.self.prompt.object

\* C18: with a prompt declared, the keyword arguments the prompt is rendered
\* with are the merge of the input messages' extra_args in message order, the
\* latest message's value standing for a key several messages have; a chat()
\* that ends has rendered the prompt.
C18_LatestMessageWins ==
    chat.self.prompt.kind /= "None" =>
        /\ \A i \in Events("format_messages") :
              chat.trace[i].kwargs = MergedContext(chat.input)
        /\ chat.pc = "done" => Events("format_messages") /= {}

C18_Witness ==
    /\ Events("format_messages") /= {}
    /\ Len(chat.input) = 2
    /\ chat.input[1].extra_args = <<[key |-> "x", value |-> "1"]>>
    /\ chat.input[2].extra_args = <<[key |-> "x", value |-> "2"]>>
    /\ \E i \in Events("format_messages") : chat.trace[i].kwargs["x"] = "2"

\* C19: the messages the connection's chat gets are, with a prompt declared,
\* the messages rendered from that prompt with the merged context, rendered
\* before the connection's chat is invoked; with no prompt declared they are
\* the input messages.
C19_RenderedMessagesDelegated ==
    \A i \in Events("connection.chat") :
        IF chat.self.prompt.kind = "None"
        THEN /\ chat.trace[i].messages = chat.input
             /\ Events("format_messages") = {}
        ELSE /\ chat.trace[i].messages =
                    FormatMessages(DeclaredPrompt, MergedContext(chat.input))
             /\ \E j \in Events("format_messages") : j < i

C19_Witness ==
    /\ chat.pc = "done"
    /\ chat.self.prompt.kind = "Prompt"
    /\ Len(chat.input) = 2
    /\ \E i \in Events("connection.chat") :
          /\ Len(chat.trace[i].messages) = 1
          /\ chat.trace[i].messages[1].content = "Hello Bob"

\* The get_resource calls chat() has made, in order: <<name, type>>.
Resolutions ==
    LET IsGetResource(e) == e.op = "get_resource"
        made == SelectSeq(chat.trace, IsGetResource)
    IN [i \in 1..Len(made) |-> <<made[i].name, made[i].type>>]

\* The get_resource calls the settings ask for: the connection, the prompt
\* if it is given by name, the tools in declared order.
Resolving ==
    <<<<chat.self.connection, "chat_model_connection">>>>
    \o (IF chat.self.prompt.kind = "str"
        THEN <<<<chat.self.prompt.name, "prompt">>>> ELSE <<>>)
    \o [i \in 1..Len(chat.self.tools.value) |-> <<chat.self.tools.value[i], "tool">>]

\* C20: chat() resolves the connection, then the prompt, then the tools in
\* declared order; the connection's chat is invoked at most once, as the last
\* step, after all of them resolved, with the resolved connection and tools;
\* a chat() that ends has invoked it, and after a resolution that fails it is
\* never invoked.
C20_ResolveThenDelegateOnce ==
    /\ Len(Resolutions) <= Len(Resolving)
    /\ Resolutions = SubSeq(Resolving, 1, Len(Resolutions))
    /\ Cardinality(Events("connection.chat")) <= 1
    /\ chat.pc = "done" => Events("connection.chat") /= {}
    /\ \A i \in Events("connection.chat") :
          /\ i = Len(chat.trace)
          /\ Resolutions = Resolving
          /\ \A j \in Events("get_resource") : chat.trace[j].error = "none"
          /\ chat.trace[i].connection.name = chat.self.connection
          /\ chat.trace[i].tools.kind = chat.self.tools.kind
          /\ [k \in 1..Len(chat.trace[i].tools.value) |->
                 chat.trace[i].tools.value[k].name] = chat.self.tools.value
    /\ (\E j \in Events("get_resource") : chat.trace[j].error /= "none") =>
          (chat.pc = "raised" /\ Events("connection.chat") = {})

C20_Witness ==
    /\ chat.pc = "done"
    /\ chat.self.prompt.kind = "str"
    /\ chat.self.tools.value = <<"t2", "t1">>
    /\ Len(chat.trace) = 6

\* The exception the line at the top of thread t's stack raises, if it raises.
Failure(t) ==
    IF Top(t).pc = "init" THEN "RecursionError" ELSE "KeyError"

\* Thread t's running call fails in this step, inside a nested get_resource.
NestedFailure(t) ==
    /\ Len(stack[t]) >= 2
    /\ \/ /\ Top(t).pc = "L175"
          /\ ~Has2(resource_providers, Top(t).type, Top(t).name)
       \/ /\ Top(t).pc = "init"
          /\ Top(t).i < Len(resource_providers[Top(t).type][Top(t).name].deps)
          /\ Len(stack[t]) >= RecursionLimit

\* C21: when a nested get_resource fails during the construction of a
\* resource, the same step ends the outer call with that exception: no frame
\* of the call is left to retry or go on, no provider is invoked, nothing is
\* built and none of the resources under construction is in the cache.
C21_NestedFailurePropagates ==
    [][\A t \in Threads :
          (stack[t] /= <<>> /\ NestedFailure(t) /\ stack'[t] /= stack[t]) =>
              /\ stack'[t] = <<>>
              /\ log'[t][Len(log'[t])].outcome = "raised"
              /\ log'[t][Len(log'[t])].error = Failure(t)
              /\ Len(log'[t]) = Len(log[t])
              /\ invoked' = invoked
              /\ provided' = provided
              /\ resources' = resources
              /\ \A i \in 1..Len(stack[t]) :
                    ~Has2(resources', stack[t][i].type, stack[t][i].name)]_vars

\* A call for a declared pair raised KeyError: its provider was invoked
\* once, the undeclared dependency failed, and the pair is not cached.
C21_Witness ==
    /\ Len(log[1]) >= 1
    /\ log[1][1].outcome = "raised"
    /\ log[1][1].error = "KeyError"
    /\ Has2(resource_providers, log[1][1].type, log[1][1].name)
    /\ invoked[<<log[1][1].type, log[1][1].name>>] = 1
    /\ ~Has2(resources, log[1][1].type, log[1][1].name)

\* C22: every action of a compiled plan listens to at least one event type,
\* whether it came from the decorator or from add_action; an agent with an
\* action declared without event types does not compile.
C22_ListenedTypesNonEmpty ==
    /\ phase = "plan" =>
          \A k \in 1..Len(actions) : actions[k].value.listen_event_types /= <<>>
    /\ (Compiled /\ \E k \in 1..Len(agent.actions) :
                        agent.actions[k].value.events = <<>>)
          => phase = "compile_failed"

\* The five registries of an Agent instance.
AgentRegistries ==
    {"actions", "prompts", "tools", "chat_model_connections", "chat_models"}

\* C23: an add_* call for a name its own registry already holds raises
\* ValueError and leaves the five registries as they were; any other add_*
\* call returns the agent, with one entry for the name appended to its own
\* registry and the four others untouched.
C23_AddRejectsKnownName ==
    [][(phase = "agent" /\ (agent' /= agent \/ registered' /= registered)) =>
          LET r == registered'
          IN /\ r.op \in AgentRegistries
             /\ IF r.name \in DictKeys(agent[r.op])
                THEN /\ r.outcome = "raised"
                     /\ error' = "ValueError"
                     /\ agent' = agent
                ELSE /\ r.outcome = "returned"
                     /\ r.value = "self"
                     /\ \A f \in AgentRegistries \ {r.op} : agent'[f] = agent[f]
                     /\ Len(agent'[r.op]) = Len(agent[r.op]) + 1
                     /\ SubSeq(agent'[r.op], 1, Len(agent[r.op])) = agent[r.op]
                     /\ agent'[r.op][Len(agent'[r.op])].key = r.name]_vars

\* A second registration under one name was refused while another registry
\* holds that name too.
C23_Witness ==
    /\ registered.outcome = "raised"
    /\ registered.name \in DictKeys(agent[registered.op])
    /\ \E f \in AgentRegistries \ {registered.op} :
          registered.name \in DictKeys(agent[f])

\* C24: compiling an agent one of whose resource declarations captured
\* constructor arguments that are not plain data fails with
\* SerializationError and leaves no plan.
C24_UnrepresentableKwargsRefused ==
    (Compiled /\ \E i \in 1..Len(DeclaredProviders) :
                     ~DeclaredProviders[i].kwargs.plain)
        => (phase = "compile_failed" /\ error = "SerializationError" /\ NoPlan)

\* The providers of a plan that are of the other runtime (foreign).
ForeignPairs(plan) ==
    {q \in Pairs :
        /\ Has2(plan.resource_providers, q[1], q[2])
        /\ plan.resource_providers[q[1]][q[2]].variant
              \in {"JavaResourceProvider", "JavaSerializableResourceProvider"}}

\* The dict that is plan i's cache.
Cache(i) == dicts[plans[i].resources]

RECURSIVE DecoratedNames(_)
DecoratedNames(cd) ==
    IF cd = <<>> THEN <<>>
    ELSE (IF Head(cd).value.marker = "action" THEN <<Head(cd).key>> ELSE <<>>)
         \o DecoratedNames(Tail(cd))

\* The keys of a dict, in order.
RECURSIVE KeySeq(_)
KeySeq(d) == IF d = <<>> THEN <<>> ELSE <<Head(d).key>> \o KeySeq(Tail(d))

\* The event types a declared action listens to, as it was declared.
DeclaredEvents(name) ==
    QualifiedNames(
        IF name \in DictKeys(agent.actions) THEN DictGet(agent.actions, name).events
        ELSE IF name \in DictKeys(class_dict) THEN DictGet(class_dict, name).events
        ELSE IF name = "chat_model_action" THEN <<ChatRequestEvent, ToolResponseEvent>>
        ELSE <<ToolRequestEvent>>)

\* The event types of a list, in order of first occurrence.
RECURSIVE FirstOccurrences(_, _)
FirstOccurrences(events, seen) ==
    IF events = <<>> THEN <<>>
    ELSE (IF Head(events) \in seen THEN <<>> ELSE <<Head(events)>>)
         \o FirstOccurrences(Tail(events), seen \cup {Head(events)})

RECURSIVE AllEvents(_)
AllEvents(names) ==
    IF names = <<>> THEN <<>>
    ELSE DeclaredEvents(Head(names)) \o AllEvents(Tail(names))

\* name, once for each time event type t occurs in events.
RECURSIVE Times(_, _, _)
Times(name, events, t) ==
    IF events = <<>> THEN <<>>
    ELSE (IF Head(events) = t THEN <<name>> ELSE <<>>) \o Times(name, Tail(events), t)

RECURSIVE ListenersInOrder(_, _)
ListenersInOrder(names, t) ==
    IF names = <<>> THEN <<>>
    ELSE Times(Head(names), DeclaredEvents(Head(names)), t)
         \o ListenersInOrder(Tail(names), t)

\* The order the claim fixes: decorated members, registrations, built-ins.
FixedOrder ==
    DecoratedNames(class_dict) \o KeySeq(agent.actions)
    \o <<"chat_model_action", "tool_call_action">>

\* C28: the keys of actions of a compiled plan come in the fixed order
\* (decorated members in class order, add_action registrations in
\* registration order, built-ins), the event types of the dispatch table in
\* the order in which that sequence of actions first names them, and every
\* dispatch list in that same order of actions: the plan's orders are a
\* function of the declaration alone.
C28_FixedGatherOrder ==
    phase = "plan" =>
        /\ KeySeq(actions) = FixedOrder
        /\ KeySeq(actions_by_event) = FirstOccurrences(AllEvents(FixedOrder), {})
        /\ \A k \in 1..Len(actions_by_event) :
              actions_by_event[k].value
                 = ListenersInOrder(FixedOrder, actions_by_event[k].key)

\* A plan compiled from a decorated action and a registered action that
\* listen to one event type.
C28_Witness ==
    /\ phase = "plan"
    /\ Len(DecoratedNames(class_dict)) = 1
    /\ Len(agent.actions) = 1
    /\ \E k \in 1..Len(actions_by_event) :
          /\ Len(actions_by_event[k].value) = 2
          /\ actions_by_event[k].value[1] = DecoratedNames(class_dict)[1]
          /\ actions_by_event[k].value[2] = agent.actions[1].key

\* C29: in a compiled plan a name is in the dispatch list of event type t
\* exactly when it is a key of actions whose action listens to t; no
\* dispatch list is empty, and get_actions finds every name it looks up.
C29_DispatchAgreesWithActions ==
    /\ phase = "plan" =>
          /\ \A k \in 1..Len(actions_by_event) :
                /\ actions_by_event[k].value /= <<>>
                /\ \A i \in 1..Len(actions_by_event[k].value) :
                      /\ actions_by_event[k].value[i] \in DictKeys(actions)
                      /\ \E e \in 1..Len(DictGet(actions, actions_by_event[k].value[i])
                                            .listen_event_types) :
                            DictGet(actions, actions_by_event[k].value[i])
                               .listen_event_types[e] = actions_by_event[k].key
          /\ \A a \in 1..Len(actions) :
                /\ actions[a].value.name = actions[a].key
                /\ \A e \in 1..Len(actions[a].value.listen_event_types) :
                      LET t == actions[a].value.listen_event_types[e]
                      IN /\ t \in DictKeys(actions_by_event)
                         /\ \E i \in 1..Len(DictGet(actions_by_event, t)) :
                               DictGet(actions_by_event, t)[i] = actions[a].key
    /\ routed.outcome = "returned" =>
          /\ Len(routed.value) = Len(DictGet(actions_by_event, routed.event_type))
          /\ \A i \in 1..Len(routed.value) :
                routed.value[i]
                   = DictGet(actions, DictGet(actions_by_event, routed.event_type)[i])

\* A plan with a user action that listens to two event types, asked for one
\* of them.
C29_Witness ==
    /\ phase = "plan"
    /\ routed.outcome = "returned"
    /\ \E a \in 1..Len(actions) :
          /\ actions[a].key \notin BuiltInNames
          /\ Len(actions[a].value.listen_event_types) = 2
          /\ actions[a].value.listen_event_types[1]
                /= actions[a].value.listen_event_types[2]
          /\ \E i \in 1..Len(routed.value) : routed.value[i] = actions[a].value

\* C30: in a compiled plan no dispatch list names an action twice.
C30_NoActionTwiceInList ==
    phase = "plan" =>
        \A k \in 1..Len(actions_by_event) :
            \A i, j \in 1..Len(actions_by_event[k].value) :
                i /= j => actions_by_event[k].value[i] /= actions_by_event[k].value[j]

\* The members of the class body that declare a resource of the type under
\* the name.
MembersDeclaring(type, name) ==
    {i \in 1..Len(class_dict) :
        /\ class_dict[i].key = name
        /\ class_dict[i].value.marker = type}

\* The constructor arguments declared for the chat model of the name: those
\* its decorated member returns, or those given to add_chat_model.
DeclaredArguments(name) ==
    IF MembersDeclaring("chat_model", name) /= {}
    THEN class_dict[CHOOSE i \in MembersDeclaring("chat_model", name) : TRUE]
             .value.kwargs
    ELSE DictGet(agent.chat_models, name)

\* The function declared as the tool of the name: the decorated member of
\* that name, or the function given to add_tool.
DeclaredFunction(name) ==
    IF MembersDeclaring("tool", name) /= {} THEN name
    ELSE DictGet(agent.tools, name)

\* The outputs collected under a key.
OutputsOf(key) == {i \in 1..Len(runner.outputs) : runner.outputs[i].key = key}

\* The lookups the actions made under a key.
LookupsOf(key) == {i \in 1..Len(runner.lookups) : runner.lookups[i].key = key}

RunsGetResourceAgent == class_dict[1].key = "mock_chat_model"

RunsBuiltInAgent == class_dict[1].key = "prompt"

\* C26: in a run of the agent of test_get_resource_in_action.py, every
\* ctx.get_resource(name, type) returns the resource built from the provider
\* declared under exactly that type and name: the chat model carries the
\* constructor arguments declared for it, the tool wraps the function
\* declared for it. An input never has two outputs; once no event is pending
\* every input has exactly one, and it is the text computed from the input,
\* the chat model's declared host and desc and the declared tool's result.
C26_ActionGetsDeclaredResources ==
    RunsGetResourceAgent =>
        /\ \A i \in 1..Len(runner.lookups) :
              LET l == runner.lookups[i]
              IN /\ l.error = "none"
                 /\ l.value.type = l.type
                 /\ l.value.name = l.name
                 /\ l.type = "chat_model" =>
                       l.value.kwargs = DeclaredArguments(l.name)
                 /\ l.type = "tool" =>
                       l.value.kwargs.args.func = DeclaredFunction(l.name)
        /\ \A i \in 1..Len(runner.inputs) :
              LET in == runner.inputs[i]
              IN /\ Cardinality(OutputsOf(in.key)) <= 1
                 /\ runner.events = <<>> => Cardinality(OutputsOf(in.key)) = 1
                 /\ \A o \in OutputsOf(in.key) :
                       /\ runner.outputs[o].value =
                             in.value \o " "
                             \o DeclaredArguments("mock_chat_model").args.host
                             \o " "
                             \o DeclaredArguments("mock_chat_model").args.desc
                             \o " call mock tools just for testing."
                       /\ {<<runner.lookups[j].type, runner.lookups[j].name>> :
                              j \in LookupsOf(in.key)}
                          = {<<"chat_model", "mock_chat_model">>,
                             <<"tool", "mock_tool">>}

\* The run of the test, with a tool and a chat model added under the names
\* of the other kind: the record of bob has its output, as the test expects.
C26_Witness ==
    /\ RunsGetResourceAgent
    /\ agent = NamesakesAdded
    /\ runner.events = <<>>
    /\ \E o \in OutputsOf("bob") :
          runner.outputs[o].value =
              "the first message. 8.8.8.8 mock chat model just for testing. "
              \o "call mock tools just for testing."

\* The chats made under a key.
ChatsOf(key) == {i \in 1..Len(runner.chats) : runner.chats[i].key = key}

\* The tool calls made under a key.
ToolCallsOf(key) == {i \in 1..Len(runner.tools) : runner.tools[i].key = key}

\* The chat i had an answer that asks for tools, the tools were called and
\* the model was asked again: the earlier messages, the answer and the
\* results.
AskedAgain(i) ==
    \E j \in (i + 1)..Len(runner.chats) :
        /\ runner.chats[j].key = runner.chats[i].key
        /\ runner.chats[j].model = runner.chats[i].model
        /\ \E t \in ToolCallsOf(runner.chats[i].key) :
              /\ runner.tools[t].name = runner.chats[i].reply.tool_calls[1].name
              /\ runner.chats[j].messages =
                    runner.chats[i].messages \o <<runner.chats[i].reply>>
                    \o ToolMessages(<<runner.tools[t].result>>)

\* The input of the key is served: one output, and every answer that asked
\* for tools was followed up.
Served(key) ==
    /\ Cardinality(OutputsOf(key)) = 1
    /\ \A i \in ChatsOf(key) :
          runner.chats[i].reply.tool_calls /= <<>> => AskedAgain(i)

\* What holds at every moment of a run of the built-in actions.
BuiltInSafety ==
    /\ \A key \in RunKeys : Cardinality(OutputsOf(key)) <= 1
    /\ \A i \in 1..Len(runner.outputs) :
          \E j \in 1..Len(runner.inputs) :
              runner.inputs[j].key = runner.outputs[i].key
    /\ \A i \in 1..Len(runner.chats) :
          /\ runner.chats[i].model = runner.chats[i].requested
          /\ \E l \in LookupsOf(runner.chats[i].key) :
                /\ runner.lookups[l].type = "chat_model"
                /\ runner.lookups[l].name = runner.chats[i].requested
    /\ \A i \in 1..Len(runner.sent) :
          runner.sent[i].type = QualifiedName(ChatResponseEvent) =>
              /\ runner.sent[i].response.tool_calls = <<>>
              /\ \E c \in ChatsOf(runner.sent[i].key) :
                    runner.chats[c].reply = runner.sent[i].response

DepsOf(p) ==
    IF Has2(resource_providers, p[1], p[2])
    THEN {resource_providers[p[1]][p[2]].deps[i] :
             i \in 1..Len(resource_providers[p[1]][p[2]].deps)}
    ELSE {}

\* The pairs reached from the pairs of S in at most n steps of DepsOf.
RECURSIVE Within(_, _)
Within(S, n) ==
    IF n = 0 THEN S ELSE Within(S \cup UNION {DepsOf(q) : q \in S}, n - 1)

\* The chain of p: p and everything its construction resolves, transitively.
Chain(p) == Within({p}, Cardinality(Pairs))

\* The chain of p is acyclic, and every pair on it is declared.
AcyclicChain(p) ==
    \A q \in Chain(p) :
        /\ Has2(resource_providers, q[1], q[2])
        /\ q \notin Within(DepsOf(q), Cardinality(Pairs))

\* The resource cached for pair q.
Cached(q) == resources[q[1]][q[2]]

\* What holds of a top-level call e of a pair whose chain is acyclic: it
\* does not raise, and once it has returned, every pair of the chain is
\* cached and was constructed once, the value is the cached instance, and
\* every resource of the chain holds the cached instances of its
\* dependencies.
ChainBuiltOnce(e) ==
    LET p == <<Entry(e).type, Entry(e).name>>
    IN AcyclicChain(p) =>
          /\ Entry(e).outcome /= "raised"
          /\ Entry(e).outcome = "returned" =>
                /\ Entry(e).value = Cached(p)
                /\ \A q \in Chain(p) :
                      /\ Has2(resources, q[1], q[2])
                      /\ invoked[q] = 1
                      /\ provided[q] = 1
                      /\ Cached(q).uses =
                            [i \in 1..Len(resource_providers[q[1]][q[2]].deps) |->
                                Cached(resource_providers[q[1]][q[2]].deps[i])]

\* C31: with one caller, a get_resource of a pair whose dependency chain is
\* acyclic comes to its end, and it ends by returning: then every pair of the
\* chain is cached and was constructed exactly once, and each resource holds
\* the cached instances of its dependencies, so a dependency shared by two
\* dependants is one instance, the one a later direct get_resource returns.
C31_AcyclicChainBuiltOnce ==
    /\ [](\A e \in LogEntries : e[1] = 1 => ChainBuiltOnce(e))
    /\ (stack[1] /= <<>> /\ AcyclicChain(<<stack[1][1].type, stack[1][1].name>>))
          ~> (stack[1] = <<>>)

\* Two dependants of one dependency were resolved one after the other: both
\* hold the one instance that was constructed for it.
C31_Witness ==
    /\ Len(log[1]) = 2
    /\ log[1][1].outcome = "returned"
    /\ log[1][2].outcome = "returned"
    /\ <<log[1][1].type, log[1][1].name>> /= <<log[1][2].type, log[1][2].name>>
    /\ \E d \in Pairs :
          /\ Has2(resources, d[1], d[2])
          /\ log[1][1].value.uses = <<Cached(d)>>
          /\ log[1][2].value.uses = <<Cached(d)>>
          /\ provided[d] = 1

\* The pair thread t asked for in its first call.
Asked(t) == <<log[t][1].type, log[t][1].name>>

\* Threads t and u have each finished one call, for different names of one
\* kind whose chains have no pair in common, and both calls returned.
DifferentNamesDone(t, u) ==
    /\ t /= u
    /\ stack[t] = <<>> /\ stack[u] = <<>>
    /\ log[t] /= <<>> /\ log[u] /= <<>>
    /\ Asked(t)[1] = Asked(u)[1]
    /\ Asked(t)[2] /= Asked(u)[2]
    /\ Chain(Asked(t)) \cap Chain(Asked(u)) = {}
    /\ log[t][1].outcome = "returned"
    /\ log[u][1].outcome = "returned"

\* C32: when concurrent callers have resolved different names of one kind,
\* the cache holds, after all of them have finished, the resource each of
\* them stored and returned: no caller's entry is lost.
C32_NoEntryLost ==
    \A t, u \in Threads :
        DifferentNamesDone(t, u) =>
            /\ Has2(resources, Asked(t)[1], Asked(t)[2])
            /\ Cached(Asked(t)) = log[t][1].value

\* The caller's call in progress fails in this step.
Fails == stack[1] /= <<>> /\ stack'[1] = <<>> /\ log'[1][Len(log'[1])].outcome = "raised"

\* The i-th and the j-th call of the caller asked for the same pair, the
\* i-th failed and the j-th, a later one, has ended.
Retried(i, j) ==
    /\ i < j
    /\ log[1][i].type = log[1][j].type
    /\ log[1][i].name = log[1][j].name
    /\ log[1][i].outcome = "raised"
    /\ log[1][j].outcome /= "running"

\* C33: with one caller, the step in which a get_resource fails changes
\* nothing in the cache and leaves the requested pair out of it; a later call
\* for the same pair goes through the lookup and the construction again: it
\* fails the same way, having invoked the provider (if there is one) anew,
\* and returns no resource.
C33_FailureStoresNothing ==
    /\ [][Fails =>
             /\ resources' = resources
             /\ ~Has2(resources', stack[1][1].type, stack[1][1].name)]_vars
    /\ [](\A i, j \in 1..Len(log[1]) :
             Retried(i, j) =>
                /\ log[1][j].outcome = "raised"
                /\ log[1][j].error = log[1][i].error
                /\ log[1][j].value = NoResource
                /\ ~Has2(resources, log[1][i].type, log[1][i].name)
                /\ IF Has2(resource_providers, log[1][i].type, log[1][i].name)
                   THEN invoked[<<log[1][i].type, log[1][i].name>>] >= 2
                   ELSE invoked[<<log[1][i].type, log[1][i].name>>] = 0)

\* A call failed on a missing dependency and so did its repetition: the
\* provider was invoked twice and the pair is not cached.
C33_Witness ==
    /\ Len(log[1]) = 2
    /\ Retried(1, 2)
    /\ log[1][2].error = "KeyError"
    /\ invoked[<<log[1][1].type, log[1][1].name>>] = 2
    /\ ~Has2(resources, log[1][1].type, log[1][1].name)

\* The i-th and the j-th call of the caller asked for one name under two
\* kinds, both declared with acyclic chains, and both calls have ended.
SameNameTwoKinds(i, j) ==
    /\ log[1][i].name = log[1][j].name
    /\ log[1][i].type /= log[1][j].type
    /\ log[1][i].outcome /= "running"
    /\ log[1][j].outcome /= "running"
    /\ AcyclicChain(<<log[1][i].type, log[1][i].name>>)
    /\ AcyclicChain(<<log[1][j].type, log[1][j].name>>)

\* C34: the cache is keyed by kind and name together: the resource cached
\* under (kind, name) is of that kind and name and was built from the
\* provider registered under that pair; when one name is declared under two
\* kinds, each get_resource returns the resource of its own kind, built once,
\* and both stay cached side by side.
C34_KeyedByKindAndName ==
    /\ \A type \in DOMAIN resources :
          \A name \in DOMAIN resources[type] :
              /\ resources[type][name].type = type
              /\ resources[type][name].name = name
              /\ resources[type][name].kwargs = resource_providers[type][name].kwargs
              /\ Len(resources[type][name].uses) = Len(resource_providers[type][name].deps)
    /\ \A i, j \in 1..Len(log[1]) :
          SameNameTwoKinds(i, j) =>
              /\ log[1][i].outcome = "returned"
              /\ log[1][i].value.type = log[1][i].type
              /\ log[1][i].value = Cached(<<log[1][i].type, log[1][i].name>>)
              /\ log[1][i].value /= log[1][j].value
              /\ provided[<<log[1][i].type, log[1][i].name>>] = 1

\* The tool x and then the chat model x were resolved: both are cached, each
\* under its own kind.
C34_Witness ==
    /\ Len(log[1]) = 2
    /\ SameNameTwoKinds(1, 2)
    /\ log[1][1].type = "tool"
    /\ log[1][2].outcome = "returned"
    /\ Has2(resources, "tool", log[1][1].name)
    /\ Has2(resources, "chat_model", log[1][1].name)

\* The chat models and chat model connections of the compiled plan, as
\* (type, name) pairs of the registry.
ChatResources ==
    {p \in {"chat_model", "chat_model_connection"} \X (ResourceNames \cup {"conn"}) :
        Has2(resource_providers, p[1], p[2])}

\* get_resource(name, type) on a new instance of the compiled plan.
Resolved(type, name) ==
    GetResource(AgentPlan(1, actions, actions_by_event, resource_providers, 1),
                <<EmptyMap>>, {}, type, name, 0)

\* C35: in a compiled plan, every chat model and chat model connection is
\* registered under the name its constructor is given: the provider filed
\* under (type, n) has name n and keyword arguments whose name is n, and the
\* resource get_resource(n, type) returns was constructed with name n,
\* whether it was added with add_chat_model / add_chat_model_connection or
\* declared with a decorator.
C35_RegisteredNameIsConstructorName ==
    phase = "plan" =>
        \A p \in ChatResources :
            /\ resource_providers[p[1]][p[2]].name = p[2]
            /\ resource_providers[p[1]][p[2]].kwargs.name = p[2]
            /\ Resolved(p[1], p[2]).error = "none"
            /\ Resolved(p[1], p[2]).value.kwargs.name = p[2]

\* The get_resource calls chat() has made for a resource of the type.
LookupsOfType(type) ==
    {i \in Events("get_resource") : chat.trace[i].type = type}

\* The get_resource calls one chat() is to make for a resource of the type:
\* one for the connection, one for the prompt if it is given as a name, one
\* for each declared tool name.
LookupsDue(type) ==
    CASE type = "chat_model_connection" -> 1
      [] type = "prompt" -> IF chat.self.prompt.kind = "str" THEN 1 ELSE 0
      [] type = "tool" -> Len(chat.self.tools.value)

\* C36: one chat() call makes one lookup for the connection, one for the
\* prompt exactly when the prompt is given as a name (an inline prompt is
\* used as it is, without a lookup) and one for each declared tool name, and
\* no other; when the settings declare no tools, it resolves no tool and
\* hands the connection no tool list.
C36_LookupsOfOneChat ==
    /\ \A type \in {"chat_model_connection", "prompt", "tool"} :
          /\ Cardinality(LookupsOfType(type)) <= LookupsDue(type)
          /\ chat.pc = "done" => Cardinality(LookupsOfType(type)) = LookupsDue(type)
    /\ \A i \in Events("get_resource") :
          chat.trace[i].type \in {"chat_model_connection", "prompt", "tool"}
    /\ chat.pc = "done" =>
          /\ \A i \in LookupsOfType("chat_model_connection") :
                chat.trace[i].name = chat.self.connection
          /\ \A i \in LookupsOfType("prompt") :
                chat.trace[i].name = chat.self.prompt.name
          /\ \A k \in 1..Len(chat.self.tools.value) :
                Cardinality({i \in LookupsOfType("tool") :
                                chat.trace[i].name = chat.self.tools.value[k]})
                = Cardinality({j \in 1..Len(chat.self.tools.value) :
                                  chat.self.tools.value[j] = chat.self.tools.value[k]})
          /\ chat.self.prompt.kind = "Prompt" =>
                /\ chat.prompt = chat.self.prompt.object
                /\ Events("format_messages") /= {}
    /\ \A i \in Events("connection.chat") :
          chat.self.tools.kind = "None" =>
              /\ LookupsOfType("tool") = {}
              /\ chat.trace[i].tools.kind = "None"

\* A chat() with an inline prompt and no tools has ended: its only lookup
\* was the one for the connection.
C36_Witness ==
    /\ chat.pc = "done"
    /\ chat.self.prompt.kind = "Prompt"
    /\ chat.self.tools.kind = "None"
    /\ Cardinality(Events("get_resource")) = 1
    /\ \E i \in Events("connection.chat") : chat.trace[i].tools.kind = "None"

====
